---- MODULE Spec2Model ----
(***************************************************************************)
(* Model of the file-backed todo repository (go-standard-crud): the Todo   *)
(* entity (models/todo.go), the in-memory TodoStorage (models/storage.go), *)
(* and FileBasedTodoRepository (repository/todo_repository.go) with its    *)
(* sync.RWMutex, called concurrently by the goroutines of the HTTP server. *)
(*                                                                         *)
(* Strings are kept in run-length form: a string is a sequence of runs     *)
(* [ch |-> c, n |-> k], "k copies of the byte c".  len() and TrimSpace are *)
(* computed on the runs, so the limits 200 and 1000 keep their values.     *)
(* A Go string is any sequence of bytes: InvalidByte stands for a byte     *)
(* that is not part of valid UTF-8 (0xff), which encoding/json writes as   *)
(* the replacement rune U+FFFD.                                            *)
(* A time.Time is [wall |-> instant, mono |-> has a monotonic reading]:    *)
(* time.Now() carries a monotonic reading, a time parsed from JSON not.    *)
(***************************************************************************)
EXTENDS Integers, Sequences, FiniteSets, TLC

(***************************************************************************)
(* Bounds of the model.                                                    *)
(***************************************************************************)
NumThreads == 2         \* goroutines calling the repository
MaxNextID == 2          \* Create is not called once NextID has passed this
MaxClock == 3           \* the clock stops ticking here
MaxFaults == 1          \* file-system faults injected in one behaviour

Threads == 1..NumThreads
NoThread == 0

(***************************************************************************)
(* Strings.                                                                *)
(***************************************************************************)
Rep(c, k) == IF k = 0 THEN << >> ELSE << [ch |-> c, n |-> k] >>

InvalidByte == "0xff"
ReplacementRune == "U+FFFD"

\* bytes of one character in UTF-8
Width(c) == IF c = ReplacementRune THEN 3 ELSE 1

\* len(s): the number of bytes
RECURSIVE StrLen(_)
StrLen(s) == IF s = << >> THEN 0 ELSE Head(s).n * Width(Head(s).ch) + StrLen(Tail(s))

IsSpace(c) == c \in {" ", "\t", "\n", "\r"}

RECURSIVE TrimLeft(_)
TrimLeft(s) ==
    IF s = << >> THEN << >>
    ELSE IF IsSpace(Head(s).ch) THEN TrimLeft(Tail(s)) ELSE s

RECURSIVE TrimRight(_)
TrimRight(s) ==
    IF s = << >> THEN << >>
    ELSE IF IsSpace(s[Len(s)].ch) THEN TrimRight(SubSeq(s, 1, Len(s) - 1)) ELSE s

TrimSpace(s) == TrimRight(TrimLeft(s))

(***************************************************************************)
(* Times.                                                                  *)
(***************************************************************************)
ZeroTime == [wall |-> 0, mono |-> FALSE]
IsZero(t) == t.wall = 0
TimeNow(clock) == [wall |-> clock, mono |-> TRUE]

(***************************************************************************)
(* models.Todo and its validation.                                         *)
(***************************************************************************)
MaxTitleLen == 200
MaxDescriptionLen == 1000

ValidateTitle(t) ==
    IF TrimSpace(t.Title) = << >> THEN "title is required"
    ELSE IF StrLen(t.Title) > MaxTitleLen THEN "title must be 200 characters or less"
    ELSE "nil"

ValidateDescription(t) ==
    IF StrLen(t.Description) > MaxDescriptionLen
    THEN "description must be 1000 characters or less"
    ELSE "nil"

\* Validate without the description check
ValidateTitleOnly(t) == ValidateTitle(t)

\* Validate with ValidateDescription called first
ValidateDescriptionFirst(t) ==
    IF ValidateDescription(t) # "nil" THEN ValidateDescription(t)
    ELSE ValidateTitle(t)

Validate(t) ==
    IF ValidateTitle(t) # "nil" THEN ValidateTitle(t)
    ELSE ValidateDescription(t)

SetTimestamps(t, clock) ==
    [t EXCEPT !.CreatedAt = IF IsZero(t.CreatedAt) THEN TimeNow(clock) ELSE @,
              !.UpdatedAt = TimeNow(clock)]

(***************************************************************************)
(* models.TodoStorage.  Operators return the new storage together with     *)
(* the value the Go method returns.                                        *)
(***************************************************************************)
\* NewTodoStorage that leaves NextID at its zero value
NewTodoStorageZero == [Todos |-> << >>, NextID |-> 0]

NewTodoStorage == [Todos |-> << >>, NextID |-> 1]

\* GenerateNextID without the increment
GenerateNextIDStale(ts) == [id |-> ts.NextID, ts |-> ts]

GenerateNextID(ts) == [id |-> ts.NextID, ts |-> [ts EXCEPT !.NextID = @ + 1]]

\* AddTodo storing the new record over the last one instead of after it
AddTodoLost(ts, todo, clock) ==
    LET g == GenerateNextID(ts)
        t == SetTimestamps([todo EXCEPT !.ID = g.id], clock)
    IN  [ts |-> [g.ts EXCEPT !.Todos = SubSeq(@, 1, Len(@) - 1) \o << t >>], todo |-> t]

AddTodo(ts, todo, clock) ==
    LET g == GenerateNextID(ts)
        t == SetTimestamps([todo EXCEPT !.ID = g.id], clock)
    IN  [ts |-> [g.ts EXCEPT !.Todos = Append(@, t)], todo |-> t]

\* index of the first todo with the given id, 0 for "todo not found"
FindTodoByID(ts, id) ==
    IF \E i \in 1..Len(ts.Todos) : ts.Todos[i].ID = id
    THEN CHOOSE i \in 1..Len(ts.Todos) :
            /\ ts.Todos[i].ID = id
            /\ \A j \in 1..(i - 1) : ts.Todos[j].ID # id
    ELSE 0

\* UpdateTodo without "updatedTodo.ID = todo.ID"
UpdateTodoKeepDraftID(ts, id, updatedTodo, clock) ==
    LET index == FindTodoByID(ts, id) IN
    IF index = 0 THEN [err |-> TRUE, ts |-> ts, todo |-> updatedTodo]
    ELSE LET t == [updatedTodo EXCEPT !.CreatedAt = ts.Todos[index].CreatedAt,
                                      !.UpdatedAt = TimeNow(clock)]
         IN  [err |-> FALSE, ts |-> [ts EXCEPT !.Todos[index] = t], todo |-> t]

\* UpdateTodo without "updatedTodo.CreatedAt = todo.CreatedAt"
UpdateTodoKeepDraftCreatedAt(ts, id, updatedTodo, clock) ==
    LET index == FindTodoByID(ts, id) IN
    IF index = 0 THEN [err |-> TRUE, ts |-> ts, todo |-> updatedTodo]
    ELSE LET t == [updatedTodo EXCEPT !.ID = ts.Todos[index].ID,
                                      !.UpdatedAt = TimeNow(clock)]
         IN  [err |-> FALSE, ts |-> [ts EXCEPT !.Todos[index] = t], todo |-> t]

\* UpdateTodo that adds the record when the id is missing, and still reports
\* "todo not found"
UpdateTodoUpsert(ts, id, updatedTodo, clock) ==
    LET index == FindTodoByID(ts, id) IN
    IF index = 0
    THEN [err |-> TRUE, ts |-> [ts EXCEPT !.Todos = Append(@, updatedTodo)],
          todo |-> updatedTodo]
    ELSE LET t == [updatedTodo EXCEPT !.ID = ts.Todos[index].ID,
                                      !.CreatedAt = ts.Todos[index].CreatedAt,
                                      !.UpdatedAt = TimeNow(clock)]
         IN  [err |-> FALSE, ts |-> [ts EXCEPT !.Todos[index] = t], todo |-> t]

\* UpdateTodo that takes the record out and appends the updated one
UpdateTodoToEnd(ts, id, updatedTodo, clock) ==
    LET index == FindTodoByID(ts, id) IN
    IF index = 0 THEN [err |-> TRUE, ts |-> ts, todo |-> updatedTodo]
    ELSE LET t == [updatedTodo EXCEPT !.ID = ts.Todos[index].ID,
                                      !.CreatedAt = ts.Todos[index].CreatedAt,
                                      !.UpdatedAt = TimeNow(clock)]
         IN  [err |-> FALSE,
              ts |-> [ts EXCEPT !.Todos = SubSeq(@, 1, index - 1) \o
                                           SubSeq(@, index + 1, Len(@)) \o << t >>],
              todo |-> t]

UpdateTodo(ts, id, updatedTodo, clock) ==
    LET index == FindTodoByID(ts, id) IN
    IF index = 0 THEN [err |-> TRUE, ts |-> ts, todo |-> updatedTodo]
    ELSE LET t == [updatedTodo EXCEPT !.ID = ts.Todos[index].ID,
                                      !.CreatedAt = ts.Todos[index].CreatedAt,
                                      !.UpdatedAt = TimeNow(clock)]
         IN  [err |-> FALSE, ts |-> [ts EXCEPT !.Todos[index] = t], todo |-> t]

\* DeleteTodo that reports nothing when the id is not stored
DeleteTodoSilent(ts, id) ==
    LET index == FindTodoByID(ts, id) IN
    IF index = 0 THEN [err |-> FALSE, ts |-> ts]
    ELSE [err |-> FALSE,
          ts |-> [ts EXCEPT !.Todos = SubSeq(@, 1, index - 1) \o
                                       SubSeq(@, index + 1, Len(@))]]

\* DeleteTodo giving the id back when it removes the newest record
DeleteTodoRecycle(ts, id) ==
    LET index == FindTodoByID(ts, id) IN
    IF index = 0 THEN [err |-> TRUE, ts |-> ts]
    ELSE [err |-> FALSE,
          ts |-> [Todos |-> SubSeq(ts.Todos, 1, index - 1) \o
                            SubSeq(ts.Todos, index + 1, Len(ts.Todos)),
                  NextID |-> IF id = ts.NextID - 1 THEN id ELSE ts.NextID]]

DeleteTodo(ts, id) ==
    LET index == FindTodoByID(ts, id) IN
    IF index = 0 THEN [err |-> TRUE, ts |-> ts]
    ELSE [err |-> FALSE,
          ts |-> [ts EXCEPT !.Todos = SubSeq(@, 1, index - 1) \o
                                       SubSeq(@, index + 1, Len(@))]]

GetAllTodos(ts) == ts.Todos

(***************************************************************************)
(* encoding/json.  A time is written as RFC 3339 text of its wall instant  *)
(* (the monotonic reading is not written); a Todo becomes an object with   *)
(* the struct tags as keys.                                                *)
(***************************************************************************)
MarshalTime(t) == [rfc3339 |-> t.wall]
UnmarshalTime(x) == [wall |-> x.rfc3339, mono |-> FALSE]

\* a string as encoding/json writes it and reads it back: escapes are undone
\* by the reader, bytes that are not valid UTF-8 are written as U+FFFD
\* (neighbouring runs of one character are not merged: the texts of the
\* model hold an invalid byte only in a run of its own kind)
MarshalString(s) ==
    [i \in 1..Len(s) |->
        IF s[i].ch = InvalidByte THEN [ch |-> ReplacementRune, n |-> s[i].n] ELSE s[i]]

MarshalTodo(t) ==
    [id |-> t.ID, title |-> MarshalString(t.Title),
     description |-> MarshalString(t.Description),
     completed |-> t.Completed, created_at |-> MarshalTime(t.CreatedAt),
     updated_at |-> MarshalTime(t.UpdatedAt)]

UnmarshalTodo(o) ==
    [ID |-> o.id, Title |-> o.title, Description |-> o.description,
     Completed |-> o.completed, CreatedAt |-> UnmarshalTime(o.created_at),
     UpdatedAt |-> UnmarshalTime(o.updated_at)]

\* json.MarshalIndent(r.storage, "", "  ")
Marshal(ts) ==
    [kind |-> "json",
     todos |-> [i \in 1..Len(ts.Todos) |-> MarshalTodo(ts.Todos[i])],
     next_id |-> ts.NextID]

\* json.Unmarshal(data, &storage) on a document that parses
Unmarshal(doc) ==
    [Todos |-> [i \in 1..Len(doc.todos) |-> UnmarshalTodo(doc.todos[i])],
     NextID |-> doc.next_id]

(***************************************************************************)
(* The backing file: absent, zero length, a truncated (unparsable) prefix  *)
(* of a document, or a whole document.                                     *)
(***************************************************************************)
NoFile == [kind |-> "absent"]
EmptyFile == [kind |-> "empty"]
PartialFile == [kind |-> "partial"]

(***************************************************************************)
(* Drafts handed to Create and Update by callers.                          *)
(***************************************************************************)
Draft(title, description, completed) ==
    [ID |-> 0, Title |-> title, Description |-> description,
     Completed |-> completed, CreatedAt |-> ZeroTime, UpdatedAt |-> ZeroTime]

\* a draft whose ID, CreatedAt and UpdatedAt were filled in by the caller,
\* with a title that is not valid UTF-8
ForgedDraft ==
    [Draft(Rep(InvalidByte, 1), << >>, TRUE) EXCEPT
        !.ID = 1,
        !.CreatedAt = [wall |-> MaxClock + 1, mono |-> FALSE],
        !.UpdatedAt = [wall |-> 1, mono |-> FALSE]]

ValidDrafts ==
    { Draft(Rep(" ", 1) \o Rep("a", MaxTitleLen - 1), Rep("d", MaxDescriptionLen), TRUE),
      ForgedDraft }

InvalidDrafts ==
    { Draft(<< >>, Rep("x", 1), FALSE),
      Draft(Rep(" ", 2) \o Rep("\t", 1), << >>, FALSE),
      Draft(Rep("a", MaxTitleLen + 1), << >>, FALSE),
      Draft(Rep("a", 1), Rep("d", MaxDescriptionLen + 1), FALSE) }

Drafts == ValidDrafts \cup InvalidDrafts

\* ids callers ask for: the ids Create can assign
Ids == 1..MaxNextID

(***************************************************************************)
(* State.  A thread is "idle", or inside the guard: "locked" (it holds its *)
(* side of r.mutex and has not yet run the body of GetAll, GetByID or      *)
(* Load) or "save" (the storage step of Create, Update or Delete is done,  *)
(* or Save has its lock, and the file write is still to come).  A call     *)
(* that waits for r.mutex is a call whose first step is not yet enabled;   *)
(* waiting records the threads that have called Lock or RLock and are      *)
(* blocked inside it.                                                      *)
(***************************************************************************)
VARIABLES
    storage,    \* r.storage: [Todos, NextID]
    file,       \* content of r.filePath
    writer,     \* r.mutex: the thread holding Lock, or NoThread
    readers,    \* r.mutex: the threads holding RLock
    waiting,    \* r.mutex, per thread: "none", or blocked in RLock ("rlock",
                \* and "rgranted" once an Unlock has let it through), or
                \* blocked in Lock ("lock" while it waits for the mutex of
                \* the writers, "pending" once it holds that mutex, has
                \* announced itself and waits for the readers to leave)
    pc,         \* per thread: where it is in its repository call
    op,         \* per thread: the call's name, id argument and *todo
    last,       \* what the step just taken returned to its caller, if it returned
    now,        \* the wall clock read by time.Now()
    started,    \* a repository method has been called on this instance
    faults,     \* file-system faults injected so far
    assigned,   \* history: the ids AddTodo has handed out, in order
    removed,    \* history: number of records DeleteTodo has removed
    loaded,     \* history: number of records Load has read in
    sync,       \* history: "unknown" until the first successful load or write,
                \* "clean" after a successful load or write, "mutfail" once
                \* Create, Update or Delete has since returned an I/O error,
                \* "savefail" once only Save has
    deleted,    \* history: the ids DeleteTodo has removed on this instance
    handed,     \* history, recorded with kept: the ids Create has returned to a
                \* caller (with nil or with the error of the file write), over
                \* all runs of the program
    front,      \* the HTTP front: the data file path of the configuration,
                \* where runApplication is ("init", "load", "serving",
                \* "shutdown", "save", "saving", "exited", or "failed" when
                \* it returned an error), the request the handler is serving (NoReq when
                \* none), the request it took last and the last response it
                \* wrote; and, where service methods are called on several
                \* goroutines at once, the call each goroutine is in
                \* (calls) and the goroutine that runs (turn)
    mock,       \* a MockTodoRepository driven with the calls made on r: its
                \* todos (the map, as the set of its values: one per key) and
                \* nextID, the call a caller last made on it and what that
                \* call returned
    kept        \* history, recorded (kept.on) in the behaviours that stop and
                \* restart the program: id, title, description and completed of
                \* the todos whose Create or Update returned nil, as last
                \* returned, less those DeleteTodo has removed since

vars == << storage, file, writer, readers, waiting, pc, op, last, now, started, faults,
          assigned, removed, loaded, sync, deleted, handed, front, kept, mock >>

hist == << assigned, removed, loaded, sync, deleted, handed, kept >>

NoTodo == Draft(<< >>, << >>, FALSE)

\* what a client sees of a todo besides its times
Content(t) ==
    [id |-> t.ID, title |-> t.Title, description |-> t.Description,
     completed |-> t.Completed]

\* no record is kept of what was returned / the record starts empty
KeptOff == [on |-> FALSE, todos |-> {}]
KeptNone == [on |-> TRUE, todos |-> {}]

\* DeleteTodo has removed id
Forget(k, id) == [k EXCEPT !.todos = { c \in @ : c.id # id }]

\* the call o has returned kind
Returning(k, o, kind) ==
    IF k.on /\ kind = "ok" /\ o.name \in {"Create", "Update"}
    THEN [k EXCEPT !.todos = { c \in @ : c.id # o.id } \cup {Content(o.todo)}]
    ELSE k
NoOp == [name |-> "none", id |-> 0, todo |-> NoTodo]
Call(name, id, todo) == [name |-> name, id |-> id, todo |-> todo]

\* what a call returned: its kind ("ok", "validation", "notfound", "io"), the id
\* it was about, and the todos it handed back (the record *todo points to when
\* Create or Update returns, the copy from GetByID, the slice from GetAll)
NoRes == [op |-> "none", kind |-> "none", id |-> 0, val |-> << >>]
Result(t, name, kind, id, val) == [op |-> name, kind |-> kind, id |-> id, val |-> val]

\* files an earlier run of the program can have left behind
InitFiles ==
    { NoFile,
      Marshal(AddTodo(NewTodoStorage, Draft(Rep("a", 1), << >>, FALSE), 1).ts) }

\* getEnvOrDefault("DATA_FILE", "todos.json"), and a directory whose name
\* reads like an error message
DefaultPath == "todos.json"
DataFilePaths == {DefaultPath, "not found/todos.json", "validation failed/todos.json"}

NoReq == [method |-> "none"]
NoServed == [method |-> "none", seg |-> [numeric |-> FALSE, n |-> 0], kind |-> "none"]
NoResp == [status |-> 0, error |-> << >>, err |-> << >>, body |-> << >>]

(***************************************************************************)
(* MockTodoRepository, the in-memory implementation of TodoRepository, with *)
(* loadErr and saveErr nil.  Operators take the repository and return it    *)
(* with the call and its result recorded.                                   *)
(***************************************************************************)
NewMockTodoRepository ==
    [todos |-> {}, nextID |-> 1, call |-> NoOp, res |-> NoRes]

\* todo, exists := m.todos[id]
MockExists(m, id) == \E x \in m.todos : x.ID = id
MockTodo(m, id) == CHOOSE x \in m.todos : x.ID = id

\* m.todos[todo.ID] = &todoCopy
MockStore(todos, t) == {x \in todos : x.ID # t.ID} \cup {t}

MockGetByID(m, id) ==
    [m EXCEPT !.call = Call("GetByID", id, NoTodo),
              !.res = IF MockExists(m, id)
                      THEN Result(1, "GetByID", "ok", id, << MockTodo(m, id) >>)
                      ELSE Result(1, "GetByID", "notfound", id, << >>)]

MockCreate(m, todo, clock) ==
    IF Validate(todo) # "nil"
    THEN [m EXCEPT !.call = Call("Create", 0, todo),
                   !.res = Result(1, "Create", "validation", 0, << >>)]
    ELSE LET t == [todo EXCEPT !.ID = m.nextID,
                               !.CreatedAt = TimeNow(clock),
                               !.UpdatedAt = TimeNow(clock)]
         IN  [todos |-> MockStore(m.todos, t),
              nextID |-> m.nextID + 1,
              call |-> Call("Create", 0, todo),
              res |-> Result(1, "Create", "ok", t.ID, << t >>)]

MockUpdate(m, id, todo, clock) ==
    IF ~MockExists(m, id)
    THEN [m EXCEPT !.call = Call("Update", id, todo),
                   !.res = Result(1, "Update", "notfound", id, << >>)]
    ELSE IF Validate(todo) # "nil"
    THEN [m EXCEPT !.call = Call("Update", id, todo),
                   !.res = Result(1, "Update", "validation", id, << >>)]
    ELSE LET t == [todo EXCEPT !.ID = id,
                               !.CreatedAt = MockTodo(m, id).CreatedAt,
                               !.UpdatedAt = TimeNow(clock)]
         IN  [m EXCEPT !.todos = MockStore(@, t),
                       !.call = Call("Update", id, todo),
                       !.res = Result(1, "Update", "ok", id, << t >>)]

MockDelete(m, id) ==
    IF ~MockExists(m, id)
    THEN [m EXCEPT !.call = Call("Delete", id, NoTodo),
                   !.res = Result(1, "Delete", "notfound", id, << >>)]
    ELSE [m EXCEPT !.todos = {x \in @ : x.ID # id},
                   !.call = Call("Delete", id, NoTodo),
                   !.res = Result(1, "Delete", "ok", id, << >>)]

\* NewFileBasedTodoRepository(filePath), with k the record kept of returns
\* and p the data file path
\* files json.Unmarshal reads into a TodoStorage without an error, whoever
\* wrote them: the above, a document with one id twice, one whose next_id is
\* not past its ids, and the document {}
ParseableFiles ==
    LET a == MarshalTodo(AddTodo(NewTodoStorage, Draft(Rep("a", 1), << >>, FALSE), 1).todo)
    IN  (InitFiles \ {NoFile})
        \cup { [kind |-> "json", todos |-> << a, a >>, next_id |-> 2],
               [kind |-> "json", todos |-> << a >>, next_id |-> 1],
               [kind |-> "json", todos |-> << >>, next_id |-> 0] }

FreshOn(files, k, p) ==
    /\ storage = NewTodoStorage
    /\ file \in files
    /\ writer = NoThread
    /\ readers = {}
    /\ waiting = [t \in Threads |-> "none"]
    /\ pc = [t \in Threads |-> "idle"]
    /\ op = [t \in Threads |-> NoOp]
    /\ last = NoRes
    /\ now = 2
    /\ started = FALSE
    /\ faults = 0
    /\ assigned = << >>
    /\ removed = 0
    /\ loaded = 0
    /\ sync = "unknown"
    /\ deleted = {}
    /\ handed = {}
    /\ front = [path |-> p, main |-> "init", req |-> NoReq, served |-> NoServed,
                resp |-> NoResp, calls |-> [t \in Threads |-> NoReq], turn |-> NoThread]
    /\ kept = k
    /\ mock = NewMockTodoRepository

Fresh(k, p) == FreshOn(InitFiles, k, p)

Init == Fresh(KeptOff, DefaultPath)

(***************************************************************************)
(* sync.RWMutex.                                                           *)
(***************************************************************************)
\* Create, Update and Delete taking the read side
LockModeShared(name) == IF name = "Load" THEN "lock" ELSE "rlock"

\* Load on the read side, next to Save
LockModeLoadShared(name) ==
    IF name \in {"GetAll", "GetByID", "Save", "Load"} THEN "rlock" ELSE "lock"

\* Delete on the read side
LockModeDeleteShared(name) ==
    IF name \in {"GetAll", "GetByID", "Save", "Delete"} THEN "rlock" ELSE "lock"

\* which side of r.mutex each method takes
LockMode(name) ==
    IF name \in {"GetAll", "GetByID", "Save"} THEN "rlock" ELSE "lock"

\* the mutex of the writers inside r.mutex is free: no Lock holds or awaits
\* the readers' leave
WriterMutexFree ==
    /\ writer = NoThread
    /\ \A u \in Threads : waiting[u] # "pending"

\* r.mutex.Lock() can return to t
CanLock(t) ==
    /\ writer = NoThread
    /\ readers = {}
    /\ \A u \in Threads : waiting[u] # "rgranted"
    /\ \/ waiting[t] = "pending"
       \/ waiting[t] = "none" /\ WriterMutexFree

\* r.mutex.RLock() can return to t: no writer holds the lock, and either an
\* Unlock has let t through or no writer had announced itself when t came
CanRLock(t) ==
    /\ writer = NoThread
    /\ \/ waiting[t] = "rgranted"
       \/ waiting[t] = "none" /\ \A u \in Threads : waiting[u] # "pending"

\* Unlock lets through every reader that was blocked
Granted(w) == [u \in Threads |-> IF w[u] = "rlock" THEN "rgranted" ELSE w[u]]

\* r.mutex.Lock() / r.mutex.RLock() returns
Acquire(t, mode) ==
    /\ IF mode = "lock"
       THEN /\ CanLock(t)
            /\ writer' = t
            /\ readers' = readers
       ELSE /\ CanRLock(t)
            /\ readers' = readers \cup {t}
            /\ writer' = writer
    /\ waiting' = [waiting EXCEPT ![t] = "none"]

\* a method that returns without its RUnlock
ReleaseWriterOnly(t) ==
    /\ writer' = IF writer = t THEN NoThread ELSE writer
    /\ readers' = readers
    /\ waiting' = IF writer = t THEN Granted(waiting) ELSE waiting

\* the deferred r.mutex.Unlock() / r.mutex.RUnlock()
Release(t) ==
    /\ writer' = IF writer = t THEN NoThread ELSE writer
    /\ readers' = readers \ {t}
    /\ waiting' = IF writer = t THEN Granted(waiting) ELSE waiting

\* a call that takes the guard, fails in its storage step and returns
AcquireRelease(t, mode) ==
    /\ IF mode = "lock" THEN CanLock(t) ELSE CanRLock(t)
    /\ UNCHANGED << writer, readers >>
    /\ waiting' = IF mode = "lock" THEN Granted([waiting EXCEPT ![t] = "none"])
                  ELSE [waiting EXCEPT ![t] = "none"]

\* a call that returns before it comes to r.mutex
NoLock(t) ==
    /\ waiting[t] = "none"
    /\ UNCHANGED << writer, readers, waiting >>

\* the call returns r to its caller
Return(t, r) ==
    /\ Release(t)
    /\ pc' = [pc EXCEPT ![t] = "idle"]
    /\ op' = [op EXCEPT ![t] = NoOp]
    /\ last' = r

\* the record the caller's *todo holds when Create or Update returns
Returned(t) == IF op[t].name \in {"Create", "Update"} THEN << op[t].todo >> ELSE << >>

\* a failed save undoing the AddTodo before the error is returned
AfterFailedSaveRollback(ts, o) ==
    IF o.name = "Create" THEN [ts EXCEPT !.Todos = SubSeq(@, 1, Len(@) - 1)] ELSE ts

\* r.storage when Create, Update, Delete or Save returns the error of the
\* file write: the storage step is not undone
AfterFailedSave(ts, o) == ts

(***************************************************************************)
(* saveUnsafe, and the body of Save: json.MarshalIndent and os.WriteFile.  *)
(* os.WriteFile can fail at open (the file is left as it was) or while     *)
(* writing (the file is left holding a prefix of the data).                *)
(***************************************************************************)
saveUnsafe(t) ==
    /\ pc[t] = "save"
    /\ \/ /\ file' = Marshal(storage)
          /\ Return(t, Result(t, op[t].name, "ok", op[t].id, Returned(t)))
          /\ sync' = "clean"
          /\ UNCHANGED << storage, faults >>
       \/ /\ faults < MaxFaults
          /\ faults' = faults + 1
          /\ file' \in {file, PartialFile}
          /\ Return(t, Result(t, op[t].name, "io", op[t].id, Returned(t)))
          /\ sync' = IF op[t].name # "Save" THEN "mutfail"
                     ELSE IF sync = "clean" THEN "savefail" ELSE sync
          /\ storage' = AfterFailedSave(storage, op[t])
    /\ handed' = IF kept.on /\ op[t].name = "Create" THEN handed \cup {op[t].id}
                 ELSE handed
    /\ kept' = Returning(kept, op[t], last'.kind)
    /\ UNCHANGED << now, front, mock, started, assigned, removed, loaded, deleted >>

(***************************************************************************)
(* FileBasedTodoRepository.Create: todo.Validate() before the lock, then   *)
(* Lock, AddTodo and *todo = createdTodo.                                  *)
(***************************************************************************)
Create(t, d) ==
    /\ pc[t] = "idle"
    /\ storage.NextID <= MaxNextID
    /\ started' = TRUE
    /\ IF Validate(d) # "nil"
       THEN /\ last' = Result(t, "Create", "validation", 0, << >>)
            /\ NoLock(t)
            /\ UNCHANGED << storage, pc, op, assigned >>
       ELSE LET a == AddTodo(storage, d, now) IN
            /\ Acquire(t, LockMode("Create"))
            /\ storage' = a.ts
            /\ assigned' = Append(assigned, a.todo.ID)
            /\ op' = [op EXCEPT ![t] = Call("Create", a.todo.ID, a.todo)]
            /\ pc' = [pc EXCEPT ![t] = "save"]
            /\ last' = NoRes
    /\ UNCHANGED << file, now, front, mock, faults, removed, loaded, sync, deleted, handed, kept >>

(***************************************************************************)
(* FileBasedTodoRepository.Update: todo.Validate() before the lock, then   *)
(* Lock, UpdateTodo and *todo = *updatedTodo.                              *)
(***************************************************************************)
Update(t, id, d) ==
    /\ pc[t] = "idle"
    /\ started' = TRUE
    /\ IF Validate(d) # "nil"
       THEN /\ last' = Result(t, "Update", "validation", id, << >>)
            /\ NoLock(t)
            /\ UNCHANGED << storage, pc, op >>
       ELSE LET u == UpdateTodo(storage, id, d, now) IN
            IF u.err
            THEN /\ AcquireRelease(t, LockMode("Update"))
                 /\ storage' = u.ts
                 /\ last' = Result(t, "Update", "notfound", id, << >>)
                 /\ UNCHANGED << pc, op >>
            ELSE /\ Acquire(t, LockMode("Update"))
                 /\ storage' = u.ts
                 /\ op' = [op EXCEPT ![t] = Call("Update", id, u.todo)]
                 /\ pc' = [pc EXCEPT ![t] = "save"]
                 /\ last' = NoRes
    /\ UNCHANGED << file, now, front, mock, faults, hist >>

(***************************************************************************)
(* FileBasedTodoRepository.Delete: Lock and DeleteTodo.                    *)
(***************************************************************************)
Delete(t, id) ==
    /\ pc[t] = "idle"
    /\ started' = TRUE
    /\ LET x == DeleteTodo(storage, id) IN
        IF x.err
        THEN /\ AcquireRelease(t, LockMode("Delete"))
             /\ storage' = x.ts
             /\ last' = Result(t, "Delete", "notfound", id, << >>)
             /\ UNCHANGED << pc, op, removed, deleted, kept >>
        ELSE /\ Acquire(t, LockMode("Delete"))
             /\ storage' = x.ts
             /\ removed' = removed + 1
             /\ deleted' = deleted \cup {id}
             /\ kept' = Forget(kept, id)
             /\ op' = [op EXCEPT ![t] = Call("Delete", id, NoTodo)]
             /\ pc' = [pc EXCEPT ![t] = "save"]
             /\ last' = NoRes
    /\ UNCHANGED << file, now, front, mock, faults, assigned, loaded, sync, handed >>

(***************************************************************************)
(* FileBasedTodoRepository.GetAll / GetByID                                *)
(***************************************************************************)
\* a call of GetAll, GetByID or Load gets its side of r.mutex
Enter(t, name, id) ==
    /\ pc[t] = "idle"
    /\ started' = TRUE
    /\ Acquire(t, LockMode(name))
    /\ pc' = [pc EXCEPT ![t] = "locked"]
    /\ op' = [op EXCEPT ![t] = Call(name, id, NoTodo)]
    /\ last' = NoRes
    /\ UNCHANGED << storage, file, now, front, mock, faults, hist >>

GetAllCall(t) == Enter(t, "GetAll", 0)

\* return r.storage.GetAllTodos(), nil
GetAll(t) ==
    /\ pc[t] = "locked"
    /\ op[t].name = "GetAll"
    /\ Return(t, Result(t, "GetAll", "ok", 0, GetAllTodos(storage)))
    /\ UNCHANGED << storage, file, now, front, mock, started, faults, hist >>

GetByIDCall(t, id) == Enter(t, "GetByID", id)

\* todo, _, err := r.storage.FindTodoByID(id); todoCopy := *todo
GetByID(t) ==
    /\ pc[t] = "locked"
    /\ op[t].name = "GetByID"
    /\ LET index == FindTodoByID(storage, op[t].id) IN
        IF index = 0
        THEN Return(t, Result(t, "GetByID", "notfound", op[t].id, << >>))
        ELSE Return(t, Result(t, "GetByID", "ok", op[t].id, << storage.Todos[index] >>))
    /\ UNCHANGED << storage, file, now, front, mock, started, faults, hist >>

(***************************************************************************)
(* FileBasedTodoRepository.Save: takes its lock; the write is saveUnsafe's *)
(* step, the same two calls.                                               *)
(***************************************************************************)
Save(t) ==
    /\ pc[t] = "idle"
    /\ started' = TRUE
    /\ Acquire(t, LockMode("Save"))
    /\ pc' = [pc EXCEPT ![t] = "save"]
    /\ op' = [op EXCEPT ![t] = Call("Save", 0, NoTodo)]
    /\ last' = NoRes
    /\ UNCHANGED << storage, file, now, front, mock, faults, hist >>

(***************************************************************************)
(* FileBasedTodoRepository.Load.  main calls it once, on the new           *)
(* repository, before the server starts.                                   *)
(***************************************************************************)
\* json.Unmarshal filling r.storage itself
AfterFailedUnmarshalInPlace(ts) == NewTodoStorage

\* r.storage when json.Unmarshal returns an error: it was given a local
\* variable, and r.storage is assigned only after it returns nil
AfterFailedUnmarshal(ts) == ts

LoadCall(t) ==
    /\ ~started
    /\ Enter(t, "Load", 0)

\* os.Stat, os.ReadFile, json.Unmarshal and r.storage = &storage
Load(t) ==
    /\ pc[t] = "locked"
    /\ op[t].name = "Load"
    /\ \/ /\ file.kind \in {"absent", "empty"}
          /\ storage' = NewTodoStorage
          /\ Return(t, Result(t, "Load", "ok", 0, << >>))
          /\ loaded' = 0
          /\ sync' = "clean"
          /\ UNCHANGED faults
       \/ /\ file.kind = "partial"
          /\ Return(t, Result(t, "Load", "io", 0, << >>))
          /\ storage' = AfterFailedUnmarshal(storage)
          /\ UNCHANGED << faults, loaded, sync >>
       \/ /\ file.kind = "json"
          /\ storage' = Unmarshal(file)
          /\ Return(t, Result(t, "Load", "ok", 0, << >>))
          /\ loaded' = Len(file.todos)
          /\ sync' = "clean"
          /\ UNCHANGED faults
       \/ /\ file.kind # "absent"
          /\ faults < MaxFaults
          /\ faults' = faults + 1
          /\ Return(t, Result(t, "Load", "io", 0, << >>))
          /\ UNCHANGED << storage, loaded, sync >>
    /\ UNCHANGED << file, now, front, mock, started, assigned, removed, deleted, handed, kept >>

(***************************************************************************)
(* The clock.                                                              *)
(***************************************************************************)
\* Load called on a repository that is in use (the method is public)
Reload(t) ==
    /\ started
    /\ Enter(t, "Load", 0)

Tick ==
    /\ now < MaxClock
    /\ now' = now + 1
    /\ last' = NoRes
    /\ UNCHANGED << storage, file, writer, readers, waiting, pc, op, started,
                    faults, front, mock, hist >>

\* the steps of the public methods short of the file write
Calls(t) ==
    \/ \E d \in Drafts : Create(t, d)
    \/ \E id \in Ids, d \in Drafts : Update(t, id, d)
    \/ \E id \in Ids : Delete(t, id)
    \/ GetAllCall(t)
    \/ GetAll(t)
    \/ \E id \in Ids : GetByIDCall(t, id)
    \/ GetByID(t)
    \/ Save(t)
    \/ LoadCall(t)
    \/ Load(t)

Next ==
    \/ \E t \in Threads : Calls(t)
    \/ \E t \in Threads : saveUnsafe(t)
    \/ Tick

Spec == Init /\ [][Next]_vars

\* saveUnsafe on a disk that does not fail: os.WriteFile returns nil
saveUnsafeWritten(t) == saveUnsafe(t) /\ faults' = faults

\* Concurrent callers on a reliable disk, within one reading of the clock.
NextConcurrent ==
    \/ \E t \in Threads : Calls(t)
    \/ \E t \in Threads : saveUnsafeWritten(t)

SpecConcurrent == Init /\ [][NextConcurrent]_vars

\* Callers that write the file and may load it again at any time, on a disk
\* that does not fail (Update writes through the same saveUnsafe as Create
\* and Delete).
NextReload ==
    \/ \E t \in Threads, d \in Drafts : Create(t, d)
    \/ \E t \in Threads, id \in Ids : Delete(t, id)
    \/ \E t \in Threads : Save(t)
    \/ \E t \in Threads : saveUnsafeWritten(t)
    \/ \E t \in Threads : LoadCall(t)
    \/ \E t \in Threads : Reload(t)
    \/ \E t \in Threads : Load(t)

SpecReload == Init /\ [][NextReload]_vars

\* Callers that read, callers that change the collection and a Load on the
\* repository in use, on a disk that does not fail.
NextReaders ==
    \/ \E t \in Threads : GetAllCall(t)
    \/ \E t \in Threads : GetAll(t)
    \/ \E t \in Threads, id \in Ids : GetByIDCall(t, id)
    \/ \E t \in Threads : GetByID(t)
    \/ \E t \in Threads : Create(t, CHOOSE d \in ValidDrafts : d # ForgedDraft)
    \/ \E t \in Threads, id \in Ids :
          Update(t, id, CHOOSE d \in ValidDrafts : d # ForgedDraft)
    \/ \E t \in Threads, id \in Ids : Delete(t, id)
    \/ \E t \in Threads : saveUnsafeWritten(t)
    \/ \E t \in Threads : LoadCall(t)
    \/ \E t \in Threads : Reload(t)
    \/ \E t \in Threads : Load(t)

SpecReaders == Init /\ [][NextReaders]_vars

\* One caller that writes the file, on a disk that may fail, and loads it
\* again.
NextReloadFaulty ==
    \/ \E d \in ValidDrafts : Create(1, d)
    \/ \E id \in Ids : Delete(1, id)
    \/ saveUnsafe(1)
    \/ LoadCall(1)
    \/ Reload(1)
    \/ Load(1)

SpecReloadFaulty == Init /\ [][NextReloadFaulty]_vars

(***************************************************************************)
(* Callers that block in r.mutex.  RLock blocks while a writer holds the   *)
(* lock or has announced itself; Lock blocks while the lock is held on     *)
(* either side or another Lock is ahead of it.  Which method the blocked   *)
(* call runs is chosen when the lock is given to it: the methods on one    *)
(* side of the lock differ only after it.                                  *)
(***************************************************************************)
Blocks(t, to) ==
    /\ pc[t] = "idle"
    /\ waiting[t] = "none"
    /\ waiting' = [waiting EXCEPT ![t] = to]
    /\ started' = TRUE
    /\ last' = NoRes
    /\ UNCHANGED << storage, file, writer, readers, pc, op, now, front, mock, faults, hist >>

\* GetAll, GetByID or Save calls r.mutex.RLock(), which does not return yet
RLockBlocks(t) ==
    /\ ~CanRLock(t)
    /\ Blocks(t, "rlock")

\* Create, Update, Delete or Load calls r.mutex.Lock(), which does not
\* return yet
LockBlocks(t) ==
    /\ ~CanLock(t)
    /\ Blocks(t, IF WriterMutexFree THEN "pending" ELSE "lock")

\* a blocked Lock gets the mutex of the writers and announces itself
LockAnnounces(t) ==
    /\ waiting[t] = "lock"
    /\ WriterMutexFree
    /\ waiting' = [waiting EXCEPT ![t] = "pending"]
    /\ last' = NoRes
    /\ UNCHANGED << storage, file, writer, readers, pc, op, now, front, mock, started,
                    faults, hist >>

\* the methods, called with one draft that Validate accepts (a draft that it
\* rejects makes Create and Update return before r.mutex)
CallsBlocking(t) ==
    LET d == CHOOSE x \in ValidDrafts : x # ForgedDraft IN
    \/ Create(t, d)
    \/ \E id \in Ids : Update(t, id, d)
    \/ \E id \in Ids : Delete(t, id)
    \/ GetAllCall(t)
    \/ GetAll(t)
    \/ \E id \in Ids : GetByIDCall(t, id)
    \/ GetByID(t)
    \/ Save(t)
    \/ LoadCall(t)
    \/ Load(t)

NextBlocking ==
    \/ \E t \in Threads : CallsBlocking(t)
    \/ \E t \in Threads : saveUnsafe(t)
    \/ \E t \in Threads : RLockBlocks(t)
    \/ \E t \in Threads : LockBlocks(t)
    \/ \E t \in Threads : LockAnnounces(t)

\* a thread inside the guard runs: the body of GetAll, GetByID or Load, or
\* the file write, which returns
Runs(t) == GetAll(t) \/ GetByID(t) \/ Load(t) \/ saveUnsafe(t)

\* a blocked call that the lock has been given to goes on
Proceeds(t) == waiting[t] \in {"pending", "rgranted"} /\ CallsBlocking(t)

\* Fair scheduling of the goroutines; the mutex of the writers does not
\* pass a blocked Lock by for ever (sync.Mutex hands over to the longest
\* waiter once it has waited for a millisecond).
SpecBlocking ==
    /\ Init
    /\ [][NextBlocking]_vars
    /\ \A t \in Threads :
          /\ WF_vars(Runs(t))
          /\ WF_vars(Proceeds(t))
          /\ SF_vars(LockAnnounces(t))

(***************************************************************************)
(* The caller's side of a return.  last.val is what the caller holds: the  *)
(* slice GetAll returned, the Todo GetByID's pointer points to, or the     *)
(* *todo it passed to Create or Update.  The caller may write to it.       *)
(***************************************************************************)
\* GetByID with "return todo, nil"
SharesStorageGetByID(name) == name = "GetByID"

\* what the method hands back is memory of r.storage: GetAllTodos copies into
\* a new slice, GetByID returns &todoCopy, AddTodo takes its Todo by value and
\* Create and Update assign through *todo
SharesStorage(name) ==
    CASE name = "GetAll" -> FALSE
      [] name = "GetByID" -> FALSE
      [] name = "Create" -> FALSE
      [] name = "Update" -> FALSE
      [] OTHER -> FALSE

\* a write of the caller to a Todo: the title is blanked, completed flipped
Scribbled(todo) == [todo EXCEPT !.Title = << >>, !.Completed = ~@]

\* the caller writes to the i-th Todo it was handed
CallerWrites(i) ==
    /\ last.kind = "ok"
    /\ i \in 1..Len(last.val)
    /\ last' = [last EXCEPT !.val[i] = Scribbled(@)]
    /\ LET index == FindTodoByID(storage, last.val[i].ID) IN
        storage' = IF SharesStorage(last.op) /\ index # 0
                   THEN [storage EXCEPT !.Todos[index] = Scribbled(@)]
                   ELSE storage
    /\ UNCHANGED << file, writer, readers, waiting, pc, op, now, front, mock, started,
                    faults, hist >>

\* One caller that writes to what it was handed.
NextCaller ==
    \/ Calls(1)
    \/ saveUnsafe(1)
    \/ \E i \in 1..MaxNextID : CallerWrites(i)

SpecCaller == Init /\ [][NextCaller]_vars

\* One caller on a disk that may fail, within one reading of the clock.
NextFaulty ==
    \/ Calls(1)
    \/ saveUnsafe(1)

SpecFaulty == Init /\ [][NextFaulty]_vars

\* The same, started on a file of any parseable content.
InitParseable == FreshOn(ParseableFiles, KeptOff, DefaultPath)
SpecParseable == InitParseable /\ [][NextFaulty]_vars

(***************************************************************************)
(* Stopping and starting the program.  It can stop at any point: on a      *)
(* signal (setupGracefulShutdown), or killed; stopped while os.WriteFile   *)
(* is under way the file holds what it held, nothing (O_TRUNC was done), a *)
(* prefix of the data, or the data.  runApplication then runs              *)
(* initializeDataFile (an absent file becomes the empty document), makes a *)
(* new repository on the same file and calls Load; when Load fails the     *)
(* program exits, and no method runs until it is started again ("down").   *)
(***************************************************************************)
StoppedFiles ==
    IF \E t \in Threads : pc[t] = "save"
    THEN {file, EmptyFile, PartialFile, Marshal(storage)}
    ELSE {file}

\* the server listening although Load returned an error
AfterLoadServeAnyway(kind) == "serving"

\* runApplication after todoRepo.Load(): it returns the error, or goes on to
\* server.ListenAndServe()
AfterLoad(kind) == IF kind = "ok" THEN "serving" ELSE "failed"

\* initializeDataFile writing the empty document whether or not there is a
\* file
initializeDataFileAlways(f) == Marshal(NewTodoStorage)

\* initializeDataFile(config.DataFilePath)
initializeDataFile(f) == IF f.kind = "absent" THEN Marshal(NewTodoStorage) ELSE f

\* the repository after NewFileBasedTodoRepository and Load on file f
Loaded(f) == IF f.kind = "json" THEN Unmarshal(f) ELSE NewTodoStorage

Restart ==
    /\ \E f \in StoppedFiles, readable \in BOOLEAN :
        /\ file' = initializeDataFile(f)
        /\ readable \/ faults < MaxFaults
        /\ faults' = IF readable THEN faults ELSE faults + 1
        /\ IF readable /\ file'.kind # "partial"
           THEN /\ storage' = Loaded(file')
                /\ pc' = [t \in Threads |-> "idle"]
                /\ last' = Result(1, "Load", "ok", 0, << >>)
                /\ loaded' = Len(storage'.Todos)
                /\ sync' = "clean"
           ELSE /\ storage' = NewTodoStorage
                /\ pc' = [t \in Threads |-> "down"]
                /\ last' = Result(1, "Load", "io", 0, << >>)
                /\ loaded' = 0
                /\ sync' = "unknown"
    /\ writer' = NoThread
    /\ readers' = {}
    /\ waiting' = [t \in Threads |-> "none"]
    /\ op' = [t \in Threads |-> NoOp]
    /\ started' = TRUE
    /\ assigned' = << >>
    /\ removed' = 0
    /\ deleted' = {}
    /\ front' = [front EXCEPT !.main = AfterLoad(last'.kind)]
    /\ UNCHANGED << now, handed, kept, mock >>

\* One caller, a disk that may fail, and a program that is stopped and
\* started again.
NextRestart ==
    \/ \E d \in Drafts : Create(1, d)
    \/ \E id \in Ids, d \in Drafts : Update(1, id, d)
    \/ \E id \in Ids : Delete(1, id)
    \/ Save(1)
    \/ saveUnsafe(1)
    \/ LoadCall(1)
    \/ Load(1)
    \/ Restart

SpecRestart == Init /\ [][NextRestart]_vars

\* The same with the calls that add and remove records only.
NextRestartLoad ==
    \/ \E d \in ValidDrafts : Create(1, d)
    \/ \E id \in Ids : Delete(1, id)
    \/ saveUnsafe(1)
    \/ LoadCall(1)
    \/ Load(1)
    \/ Restart

SpecRestartLoad == Init /\ [][NextRestartLoad]_vars

\* The same, with the record of what the callers were handed over all runs.
InitTracked == Fresh(KeptNone, DefaultPath)

SpecTracked == InitTracked /\ [][NextRestart]_vars

(***************************************************************************)
(* Todo.Validate called on its own, on a repository that holds todos.      *)
(***************************************************************************)
ValidateTitles ==
    { << >>, Rep(" ", 2) \o Rep("\t", 1), Rep(" ", MaxTitleLen + 1), Rep("a", 1),
      Rep("a", MaxTitleLen), Rep("a", MaxTitleLen + 1),
      Rep(" ", 1) \o Rep("a", MaxTitleLen - 1) \o Rep(" ", 1),
      Rep(ReplacementRune, 66), Rep(ReplacementRune, 67) }
ValidateDescriptions ==
    { << >>, Rep("d", MaxDescriptionLen), Rep("d", MaxDescriptionLen + 1),
      Rep(ReplacementRune, 334) }

\* err := todo.Validate(): the result holds the error and the todo after
\* the call
ValidateCall(todo) ==
    /\ pc[1] = "idle"
    /\ last' = Result(1, "Validate", Validate(todo), todo.ID, << todo >>)
    /\ UNCHANGED << storage, file, writer, readers, waiting, pc, op, now, front, mock,
                    started, faults, hist >>

NextValidate ==
    \/ \E d \in ValidDrafts : Create(1, d)
    \/ saveUnsafe(1)
    \/ \E title \in ValidateTitles, description \in ValidateDescriptions,
          completed \in BOOLEAN :
          ValidateCall(Draft(title, description, completed))

SpecValidate == Init /\ [][NextValidate]_vars

(***************************************************************************)
(* service.TodoServiceImpl and handler.TodoHandler.  An error is the       *)
(* sequence of the fragments that fmt.Errorf has chained with ": ".  The   *)
(* front serves one request at a time, on goroutine 1.                     *)
(***************************************************************************)
\* which of the two texts the handler searches for occur in a fragment
Phrases(fragment) ==
    CASE fragment \in {"todo not found", "todo with ID not found",
                       "not found/todos.json"} -> {"not found"}
      [] fragment \in {"validation failed",
                       "validation failed/todos.json"} -> {"validation failed"}
      [] OTHER -> {}

\* strings.Contains(err.Error(), text)
Contains(err, text) == \E i \in 1..Len(err) : text \in Phrases(err[i])

\* the *fs.PathError of os.WriteFile, wrapped by saveUnsafe
WriteError(path) == << "failed to write file", "open", path, "permission denied" >>

\* the error a repository method returns with the result kind, for the todo
\* it was given
RepoError(name, kind, path, todo) ==
    CASE kind = "notfound" /\ name = "GetByID" -> << "todo with ID not found" >>
      [] kind = "notfound" /\ name = "Update" ->
            << "failed to update todo with ID", "todo not found" >>
      [] kind = "notfound" /\ name = "Delete" ->
            << "failed to delete todo with ID", "todo not found" >>
      [] kind = "validation" -> << "validation failed", Validate(todo) >>
      [] kind = "io" /\ name = "Create" ->
            << "failed to save todo" >> \o WriteError(path)
      [] kind = "io" /\ name = "Update" ->
            << "failed to save updated todo" >> \o WriteError(path)
      [] kind = "io" /\ name = "Delete" ->
            << "failed to save after deletion" >> \o WriteError(path)
      [] OTHER -> << >>

InvalidIDError == << "invalid todo ID", "ID must be a positive integer" >>

\* TodoServiceImpl.validateTodoInput
validateTodoInput(title, description) ==
    IF TrimSpace(title) = << >> THEN "title is required and cannot be empty"
    ELSE IF StrLen(title) > MaxTitleLen THEN "title must be 200 characters or less"
    ELSE IF StrLen(description) > MaxDescriptionLen
         THEN "description must be 1000 characters or less"
    ELSE "nil"

\* the service method a handler calls
ServiceMethod(method) ==
    CASE method = "getAllTodos" -> "GetAllTodos"
      [] method = "getTodoByID" -> "GetTodoByID"
      [] method = "createTodo" -> "CreateTodo"
      [] method = "updateTodo" -> "UpdateTodo"
      [] method = "deleteTodo" -> "DeleteTodo"

\* ServiceEntry without "if id <= 0"
ServiceEntryAnyID(method, id, title, description) ==
    IF method \in {"CreateTodo", "UpdateTodo"}
          /\ validateTodoInput(title, description) # "nil"
    THEN << "validation failed", validateTodoInput(title, description) >>
    ELSE << >>

\* what a service method returns before it comes to the repository: the
\* error of its checks of the id and of the input, or nothing
ServiceEntry(method, id, title, description) ==
    IF method \in {"GetTodoByID", "UpdateTodo", "DeleteTodo"} /\ id <= 0
    THEN InvalidIDError
    ELSE IF method \in {"CreateTodo", "UpdateTodo"}
               /\ validateTodoInput(title, description) # "nil"
    THEN << "validation failed", validateTodoInput(title, description) >>
    ELSE << >>

\* the repository method a service method calls first
FirstCall(method) ==
    CASE method = "GetAllTodos" -> "GetAll"
      [] method = "CreateTodo" -> "Create"
      [] OTHER -> "GetByID"

\* the error a service method returns when its repository call has failed
ServiceError(stage, e) ==
    CASE stage = "GetAll" -> << "failed to retrieve todos" >> \o e
      [] stage = "GetByID" -> << "todo not found" >> \o e
      [] stage = "Create" -> << "failed to create todo" >> \o e
      [] stage = "Update" -> << "failed to update todo" >> \o e
      [] stage = "Delete" -> << "failed to delete todo" >> \o e

\* TodoHandler.writeErrorResponse, with the error that led to it
writeErrorResponse(statusCode, message, err) ==
    [status |-> statusCode, error |-> message, err |-> err, body |-> << >>]

\* TodoHandler.writeJSONResponse
writeJSONResponse(statusCode, data) ==
    [status |-> statusCode, error |-> << >>, err |-> << >>, body |-> data]

\* what a handler writes when the service has returned err
HandlerError(method, err) ==
    CASE method = "getAllTodos" ->
            writeErrorResponse(500, << "Failed to retrieve todos" >>, err)
      [] method = "getTodoByID" ->
            IF Contains(err, "not found")
            THEN writeErrorResponse(404, << "Todo not found" >>, err)
            ELSE writeErrorResponse(500, << "Failed to retrieve todo" >>, err)
      [] method = "createTodo" ->
            IF Contains(err, "validation failed")
            THEN writeErrorResponse(400, err, err)
            ELSE writeErrorResponse(500, << "Failed to create todo" >>, err)
      [] method = "updateTodo" ->
            IF Contains(err, "not found")
            THEN writeErrorResponse(404, << "Todo not found" >>, err)
            ELSE IF Contains(err, "validation failed")
            THEN writeErrorResponse(400, err, err)
            ELSE writeErrorResponse(500, << "Failed to update todo" >>, err)
      [] method = "deleteTodo" ->
            IF Contains(err, "not found")
            THEN writeErrorResponse(404, << "Todo not found" >>, err)
            ELSE writeErrorResponse(500, << "Failed to delete todo" >>, err)

\* what a handler writes when the service has returned val
HandlerOK(method, val) ==
    CASE method = "createTodo" -> writeJSONResponse(201, val)
      [] method = "deleteTodo" -> writeJSONResponse(204, << >>)
      [] OTHER -> writeJSONResponse(200, val)

\* what jsonMiddleware and a handler write before the service is called:
\* the checks of the Content-Type, of the path and of the body
HandlerEntry(method, seg, body) ==
    IF method \in {"createTodo", "updateTodo"} /\ body.kind = "wrongtype"
    THEN writeErrorResponse(400, << "Content-Type must be application/json" >>, << >>)
    ELSE IF method \in {"getTodoByID", "updateTodo", "deleteTodo"} /\ ~seg.numeric
    THEN writeErrorResponse(400, << "Invalid ID format" >>, << >>)
    ELSE IF method \in {"createTodo", "updateTodo"} /\ body.kind = "malformed"
    THEN writeErrorResponse(400, << "Invalid JSON format" >>, << >>)
    ELSE NoResp

\* requests: the handler the router picks, the last segment of the path
\* (strconv.Atoi fails or gives n) and the body, for the handlers that read
\* them
Methods == {"getAllTodos", "getTodoByID", "createTodo", "updateTodo", "deleteTodo"}
Segments ==
    {[numeric |-> FALSE, n |-> 0]} \cup {[numeric |-> TRUE, n |-> k] : k \in -1..MaxNextID}
Body(kind, title, description, completed) ==
    [kind |-> kind, title |-> title, description |-> description, completed |-> completed]
Bodies ==
    { Body("wrongtype", << >>, << >>, FALSE), Body("malformed", << >>, << >>, FALSE) }
    \cup { Body("json", Rep(" ", 1) \o Rep("a", 1) \o Rep(" ", 1),
                 Rep(" ", 1) \o Rep("d", 1), TRUE),
           Body("json", Rep(" ", 2), << >>, FALSE),
           Body("json", Rep("a", MaxTitleLen + 1), << >>, FALSE),
           Body("json", Rep("a", 1), Rep("d", MaxDescriptionLen + 1), FALSE) }

SegmentsOf(method) ==
    IF method \in {"getTodoByID", "updateTodo", "deleteTodo"}
    THEN Segments ELSE {[numeric |-> FALSE, n |-> 0]}
BodiesOf(method) ==
    IF method \in {"createTodo", "updateTodo"}
    THEN Bodies ELSE {Body("none", << >>, << >>, FALSE)}

\* ServiceTodo without strings.TrimSpace
ServiceTodoUntrimmed(r) ==
    IF r.stage = "Create"
    THEN Draft(r.title, r.description, FALSE)
    ELSE [Draft(r.title, r.description, r.completed)
             EXCEPT !.ID = r.found.ID, !.CreatedAt = r.found.CreatedAt]

\* the todo a service method builds for the repository
ServiceTodo(r) ==
    IF r.stage = "Create"
    THEN Draft(TrimSpace(r.title), TrimSpace(r.description), FALSE)
    ELSE [Draft(TrimSpace(r.title), TrimSpace(r.description), r.completed)
             EXCEPT !.ID = r.found.ID, !.CreatedAt = r.found.CreatedAt]

\* json.Decoder keeping the bytes of the body as they are
DecodeStringRaw(s) == s

\* a string of the body as json.NewDecoder(r.Body).Decode reads it: bytes
\* that are not valid UTF-8 become U+FFFD, as when encoding/json writes
DecodeString(s) == MarshalString(s)

\* a request arrives: the handler and the service check it and either
\* answer at once or go on to the repository.  json.Decoder reads text that
\* is not valid UTF-8 as encoding/json writes it.
Receive(method, seg, body) ==
    /\ front.main = "serving"
    /\ pc[1] = "idle"
    /\ front.req = NoReq
    /\ LET early == HandlerEntry(method, seg, body)
           title == DecodeString(body.title)
           description == DecodeString(body.description)
           e == ServiceEntry(ServiceMethod(method), seg.n, title, description)
           served == [method |-> method, seg |-> seg, kind |-> body.kind]
       IN  front' =
             IF early # NoResp
             THEN [front EXCEPT !.served = served, !.resp = early]
             ELSE IF e # << >>
             THEN [front EXCEPT !.served = served, !.resp = HandlerError(method, e)]
             ELSE [front EXCEPT
                     !.served = served,
                     !.resp = NoResp,
                     !.req = [method |-> method, id |-> seg.n, title |-> title,
                              description |-> description,
                              completed |-> body.completed,
                              stage |-> FirstCall(ServiceMethod(method)),
                              found |-> NoTodo]]
    /\ last' = NoRes
    /\ UNCHANGED << storage, file, writer, readers, waiting, pc, op, now,
                    started, faults, hist, mock >>

\* the service is about to call the repository method stage
Calling(stage) ==
    /\ front.req # NoReq
    /\ front.req.stage = stage
    /\ pc[1] = "idle"
    /\ last.op # stage

RepositoryGetAll == Calling("GetAll") /\ GetAllCall(1)
RepositoryGetByID == Calling("GetByID") /\ GetByIDCall(1, front.req.id)
RepositoryCreate == Calling("Create") /\ Create(1, ServiceTodo(front.req))
RepositoryUpdate == Calling("Update") /\ Update(1, front.req.id, ServiceTodo(front.req))
RepositoryDelete == Calling("Delete") /\ Delete(1, front.req.id)

\* the repository method has returned to the service: the service goes on
\* to its next call, or returns and the handler writes the response
Returns ==
    /\ front.req # NoReq
    /\ pc[1] = "idle"
    /\ last.op = front.req.stage
    /\ LET r == front.req IN
       front' =
         IF last.kind # "ok"
         THEN [front EXCEPT
                 !.req = NoReq,
                 !.resp = HandlerError(r.method,
                             ServiceError(r.stage,
                                 RepoError(r.stage, last.kind, front.path,
                                           ServiceTodo(r))))]
         ELSE IF r.stage = "GetByID" /\ r.method \in {"updateTodo", "deleteTodo"}
         THEN [front EXCEPT
                 !.req = [r EXCEPT !.stage = IF r.method = "updateTodo"
                                             THEN "Update" ELSE "Delete",
                                   !.found = last.val[1]]]
         ELSE [front EXCEPT !.req = NoReq, !.resp = HandlerOK(r.method, last.val)]
    /\ UNCHANGED << storage, file, writer, readers, waiting, pc, op, last, now,
                    started, faults, hist, mock >>

\* runApplication: the data file is initialised and loaded before the
\* server listens
Start == ~started /\ Restart

\* loadConfiguration: DATA_FILE names the data file
InitDataFile == \E p \in DataFilePaths : Fresh(KeptOff, p)

NextFront ==
    \/ Start
    \/ \E method \in Methods :
          \E seg \in SegmentsOf(method), body \in BodiesOf(method) :
             Receive(method, seg, body)
    \/ RepositoryGetAll
    \/ RepositoryGetByID
    \/ RepositoryCreate
    \/ RepositoryUpdate
    \/ RepositoryDelete
    \/ GetAll(1)
    \/ GetByID(1)
    \/ saveUnsafe(1)
    \/ Returns

\* the front with the default configuration, and with DATA_FILE set
SpecFront == Init /\ [][NextFront]_vars
SpecDataFile == InitDataFile /\ [][NextFront]_vars

(***************************************************************************)
(* The run of the program step by step: runApplication initialises the     *)
(* data file, makes the repository, loads it and starts the server;        *)
(* setupGracefulShutdown waits for SIGINT or SIGTERM, shuts the server     *)
(* down and calls Save.  Handlers run on goroutine 1, main on goroutine 2. *)
(***************************************************************************)
\* initializeDataFile: os.Stat, and os.WriteFile of the empty document when
\* there is no file; when one of them fails runApplication returns the error
InitializeDataFile ==
    /\ front.main = "init"
    /\ ~started
    /\ \/ /\ file' = initializeDataFile(file)
          /\ front' = [front EXCEPT !.main = "load"]
          /\ UNCHANGED faults
       \/ /\ faults < MaxFaults
          /\ faults' = faults + 1
          /\ file' \in IF file.kind = "absent" THEN {file, EmptyFile, PartialFile}
                       ELSE {file}
          /\ front' = [front EXCEPT !.main = "failed"]
    /\ last' = NoRes
    /\ UNCHANGED << storage, writer, readers, waiting, pc, op, now, started, hist, mock >>

\* todoRepo.Load() of runApplication
MainLoad == front.main = "load" /\ LoadCall(2)

\* Load has returned: runApplication returns its error, or starts the server
ListenAndServe ==
    /\ front.main = "load"
    /\ pc[2] = "idle"
    /\ last.op = "Load"
    /\ front' = [front EXCEPT !.main = AfterLoad(last.kind)]
    /\ UNCHANGED << storage, file, writer, readers, waiting, pc, op, last, now,
                    started, faults, hist, mock >>

\* a handler has a result of the repository that it has not looked at yet
Pending ==
    /\ front.req # NoReq
    /\ pc[1] = "idle"
    /\ last.op = front.req.stage

\* sig := <-quit; server.Shutdown(ctx) stops the listener
Signal ==
    /\ front.main = "serving"
    /\ front' = [front EXCEPT !.main = "shutdown"]
    /\ UNCHANGED << storage, file, writer, readers, waiting, pc, op, last, now,
                    started, faults, hist, mock >>

\* server.Shutdown(ctx) returns: the handlers have finished, or the 30
\* seconds are over
ShutdownReturns ==
    /\ front.main = "shutdown"
    /\ front' = [front EXCEPT !.main = "save"]
    /\ UNCHANGED << storage, file, writer, readers, waiting, pc, op, last, now,
                    started, faults, hist, mock >>

\* repo.Save() of setupGracefulShutdown
MainSave ==
    /\ front.main = "save"
    /\ ~Pending
    /\ pc[2] = "idle"
    /\ Acquire(2, LockMode("Save"))
    /\ pc' = [pc EXCEPT ![2] = "save"]
    /\ op' = [op EXCEPT ![2] = Call("Save", 0, NoTodo)]
    /\ last' = NoRes
    /\ front' = [front EXCEPT !.main = "saving"]
    /\ UNCHANGED << storage, file, now, started, faults, hist, mock >>

MainSaveWrites ==
    /\ front.main = "saving"
    /\ ~Pending
    /\ saveUnsafe(2)

\* Save has returned and main returns: the process ends, whatever a handler
\* is doing
Exit ==
    /\ front.main = "saving"
    /\ pc[2] = "idle"
    /\ file' \in StoppedFiles
    /\ front' = [front EXCEPT !.main = "exited", !.req = NoReq]
    /\ pc' = [t \in Threads |-> "down"]
    /\ UNCHANGED << storage, writer, readers, waiting, op, last, now, started,
                    faults, hist, mock >>

\* the program is run again: a new process with a new repository
Run ==
    /\ front.main \in {"failed", "exited"}
    /\ front' = [front EXCEPT !.main = "init"]
    /\ storage' = NewTodoStorage
    /\ writer' = NoThread
    /\ readers' = {}
    /\ waiting' = [t \in Threads |-> "none"]
    /\ pc' = [t \in Threads |-> "idle"]
    /\ op' = [t \in Threads |-> NoOp]
    /\ last' = NoRes
    /\ started' = FALSE
    /\ assigned' = << >>
    /\ removed' = 0
    /\ loaded' = 0
    /\ sync' = "unknown"
    /\ deleted' = {}
    /\ UNCHANGED << file, now, faults, handed, kept, mock >>

\* the requests of these runs: POST /todos with a title, or with a title
\* that is not valid UTF-8, and DELETE /todos/1
LifecycleRequest ==
    \/ \E title \in {Rep(" ", 1) \o Rep("a", 1), Rep(InvalidByte, 1)} :
          Receive("createTodo", [numeric |-> FALSE, n |-> 0],
                  Body("json", title, << >>, FALSE))
    \/ Receive("deleteTodo", [numeric |-> TRUE, n |-> 1], Body("none", << >>, << >>, FALSE))

NextLifecycle ==
    \/ InitializeDataFile
    \/ MainLoad
    \/ Load(2)
    \/ ListenAndServe
    \/ LifecycleRequest
    \/ RepositoryGetByID
    \/ RepositoryCreate
    \/ RepositoryDelete
    \/ GetByID(1)
    \/ saveUnsafe(1)
    \/ Returns
    \/ Signal
    \/ ShutdownReturns
    \/ MainSave
    \/ MainSaveWrites
    \/ Exit
    \/ Run

SpecLifecycle == Init /\ [][NextLifecycle]_vars

(***************************************************************************)
(* Service methods called on several goroutines at once (one handler per   *)
(* request), each goroutine making one call, on a disk that does not fail  *)
(* and a data file that holds two todos.  The goroutine that runs is       *)
(* front.turn; a goroutine's repository call returns to its service method *)
(* before another goroutine runs.                                          *)
(***************************************************************************)
ServiceFiles ==
    { Marshal(AddTodo(AddTodo(NewTodoStorage, Draft(Rep("a", 1), << >>, FALSE), 1).ts,
                      Draft(Rep("b", 1), Rep("d", 1), FALSE), 1).ts) }

InitService == FreshOn(ServiceFiles, KeptOff, DefaultPath)

ServiceRequest(method, id, title, description, completed) ==
    [method |-> method, id |-> id, title |-> title, description |-> description,
     completed |-> completed, stage |-> FirstCall(method), found |-> NoTodo,
     err |-> << >>, val |-> << >>]

\* a repository call of the running goroutine has returned and its service
\* method has not gone on yet
Uncollected ==
    /\ front.turn # NoThread
    /\ front.calls[front.turn] # NoReq
    /\ last.op = front.calls[front.turn].stage

\* the scheduler lets goroutine t run
Schedule(t) ==
    /\ front.main = "serving"
    /\ front.turn # t
    /\ ~Uncollected
    /\ front' = [front EXCEPT !.turn = t]
    /\ UNCHANGED << storage, file, writer, readers, waiting, pc, op, last, now,
                    started, faults, hist, mock >>

\* goroutine t calls a service method: its checks of the id and of the
\* input return an error, or it goes on to the repository
ServiceCall(t, c) ==
    /\ front.main = "serving"
    /\ front.calls[t] = NoReq
    /\ ~Uncollected
    /\ LET e == ServiceEntry(c.method, c.id, c.title, c.description) IN
       front' = [front EXCEPT !.calls[t] =
                    IF e # << >> THEN [c EXCEPT !.stage = "done", !.err = e] ELSE c]
    /\ last' = NoRes
    /\ UNCHANGED << storage, file, writer, readers, waiting, pc, op, now,
                    started, faults, hist, mock >>

\* the service method of goroutine t is about to call the repository method
ServiceCalling(t, stage) ==
    /\ front.turn = t
    /\ front.calls[t] # NoReq
    /\ front.calls[t].stage = stage
    /\ pc[t] = "idle"
    /\ last = NoRes

ServiceGetByID(t) == ServiceCalling(t, "GetByID") /\ GetByIDCall(t, front.calls[t].id)
ServiceUpdate(t) ==
    ServiceCalling(t, "Update") /\ Update(t, front.calls[t].id, ServiceTodo(front.calls[t]))
ServiceDelete(t) == ServiceCalling(t, "Delete") /\ Delete(t, front.calls[t].id)

\* the steps of the repository call goroutine t is in
ServiceReads(t) == front.turn = t /\ GetByID(t)
ServiceWrites(t) == front.turn = t /\ saveUnsafeWritten(t)

\* the repository method has returned to the service method of goroutine t,
\* which goes on to its next call or returns
ServiceReturns(t) ==
    /\ front.turn = t
    /\ front.calls[t] # NoReq
    /\ pc[t] = "idle"
    /\ last.op = front.calls[t].stage
    /\ LET c == front.calls[t] IN
       front' = [front EXCEPT !.calls[t] =
          IF last.kind # "ok"
          THEN [c EXCEPT !.stage = "done",
                         !.err = ServiceError(c.stage,
                                    RepoError(c.stage, last.kind, front.path,
                                              ServiceTodo(c)))]
          ELSE IF c.stage = "GetByID" /\ c.method \in {"UpdateTodo", "DeleteTodo"}
          THEN [c EXCEPT !.stage = IF c.method = "UpdateTodo" THEN "Update" ELSE "Delete",
                         !.found = last.val[1]]
          ELSE [c EXCEPT !.stage = "done", !.val = last.val]]
    /\ last' = NoRes
    /\ UNCHANGED << storage, file, writer, readers, waiting, pc, op, now,
                    started, faults, hist, mock >>

\* DeleteTodo calls
DeleteRequests == {ServiceRequest("DeleteTodo", id, << >>, << >>, FALSE) : id \in 1..2}

NextDeletes ==
    \/ Start
    \/ \E t \in Threads : Schedule(t)
    \/ \E t \in Threads, c \in DeleteRequests : ServiceCall(t, c)
    \/ \E t \in Threads : ServiceGetByID(t)
    \/ \E t \in Threads : ServiceDelete(t)
    \/ \E t \in Threads : ServiceReads(t)
    \/ \E t \in Threads : ServiceWrites(t)
    \/ \E t \in Threads : ServiceReturns(t)

SpecDeletes == InitService /\ [][NextDeletes]_vars

\* UpdateTodo and DeleteTodo calls
UpdateRequests ==
    {ServiceRequest("UpdateTodo", id, Rep(" ", 1) \o Rep("x", 1), Rep("y", 1), TRUE) :
        id \in 1..2}

NextUpdateDelete ==
    \/ Start
    \/ \E t \in Threads : Schedule(t)
    \/ \E t \in Threads, c \in UpdateRequests \cup DeleteRequests : ServiceCall(t, c)
    \/ \E t \in Threads : ServiceGetByID(t)
    \/ \E t \in Threads : ServiceUpdate(t)
    \/ \E t \in Threads : ServiceDelete(t)
    \/ \E t \in Threads : ServiceReads(t)
    \/ \E t \in Threads : ServiceWrites(t)
    \/ \E t \in Threads : ServiceReturns(t)

SpecUpdateDelete == InitService /\ [][NextUpdateDelete]_vars

(***************************************************************************)
(* Update with the assignment ts.Todos[index] = updatedTodo taken apart:   *)
(* a struct is copied field by field, in no order the language fixes, so   *)
(* some of the fields are written first and the others after them.         *)
(* Callers update one todo and read while others do.                       *)
(***************************************************************************)
TodoFields == {"Title", "Description", "Completed", "UpdatedAt"}

\* old with the fields fs taken from new
AssignSome(old, new, fs) == [f \in DOMAIN old |-> IF f \in fs THEN new[f] ELSE old[f]]

\* Update up to the first part of the assignment
UpdateAssigns(t, id, d) ==
    LET u == UpdateTodo(storage, id, d, now)
        index == FindTodoByID(storage, id)
    IN  IF Validate(d) # "nil" \/ u.err
        THEN Update(t, id, d)
        ELSE /\ pc[t] = "idle"
             /\ started' = TRUE
             /\ Acquire(t, LockMode("Update"))
             /\ \E fs \in SUBSET TodoFields :
                   storage' = [storage EXCEPT !.Todos[index] = AssignSome(@, u.todo, fs)]
             /\ op' = [op EXCEPT ![t] = Call("Update", id, u.todo)]
             /\ pc' = [pc EXCEPT ![t] = "assign"]
             /\ last' = NoRes
             /\ UNCHANGED << file, now, front, mock, faults, hist >>

\* the rest of the assignment, and *todo = *updatedTodo
UpdateAssigned(t) ==
    /\ pc[t] = "assign"
    /\ LET index == FindTodoByID(storage, op[t].id) IN
       storage' = [storage EXCEPT !.Todos[index] = op[t].todo]
    /\ pc' = [pc EXCEPT ![t] = "save"]
    /\ last' = NoRes
    /\ UNCHANGED << file, writer, readers, waiting, op, now, started, front, mock,
                    faults, hist >>

WholeDrafts ==
    { Draft(Rep("x", 1), Rep("p", 1), TRUE), Draft(Rep("y", 1), Rep("q", 1), FALSE) }

NextUpdates ==
    \/ Start
    \/ \E t \in Threads, d \in WholeDrafts : UpdateAssigns(t, 1, d)
    \/ \E t \in Threads : UpdateAssigned(t)
    \/ \E t \in Threads : saveUnsafeWritten(t)
    \/ \E t \in Threads : GetAllCall(t)
    \/ \E t \in Threads : GetAll(t)
    \/ \E t \in Threads : GetByIDCall(t, 1)
    \/ \E t \in Threads : GetByID(t)

SpecUpdates == InitService /\ [][NextUpdates]_vars

(***************************************************************************)
(* Callers of Create, Update and Delete and a Load of the file they wrote, *)
(* on a disk that does not fail, with titles and descriptions that are at  *)
(* the length limits and not valid UTF-8.                                  *)
(***************************************************************************)
LongDrafts ==
    { Draft(Rep(InvalidByte, 67), << >>, FALSE),
      Draft(Rep("a", MaxTitleLen), Rep(InvalidByte, 334), TRUE) }

NextReloadLong ==
    \/ \E d \in Drafts \cup LongDrafts : Create(1, d)
    \/ \E id \in Ids, d \in Drafts \cup LongDrafts : Update(1, id, d)
    \/ \E id \in Ids : Delete(1, id)
    \/ saveUnsafeWritten(1)
    \/ Reload(1)
    \/ Load(1)

SpecReloadLong == Init /\ [][NextReloadLong]_vars

(***************************************************************************)
(* One caller making each call twice with the same arguments: on a         *)
(* MockTodoRepository first, then on r, on a disk that does not fail.      *)
(***************************************************************************)
\* the caller is between two calls: r has returned what was asked of it last
Between == pc[1] = "idle" /\ (mock.call = NoOp \/ last.op = mock.call.name)

OnMock(m) ==
    /\ Between
    /\ mock' = m
    /\ last' = NoRes
    /\ UNCHANGED << storage, file, writer, readers, waiting, pc, op, now, started,
                    faults, front, hist >>

MockCalls ==
    \/ \E d \in Drafts : mock.nextID <= MaxNextID /\ OnMock(MockCreate(mock, d, now))
    \/ \E id \in Ids, d \in Drafts : OnMock(MockUpdate(mock, id, d, now))
    \/ \E id \in Ids : OnMock(MockDelete(mock, id))
    \/ \E id \in Ids : OnMock(MockGetByID(mock, id))

\* the same call on r
SameCall ==
    /\ pc[1] = "idle"
    /\ last = NoRes
    /\ \/ mock.call.name = "Create" /\ Create(1, mock.call.todo)
       \/ mock.call.name = "Update" /\ Update(1, mock.call.id, mock.call.todo)
       \/ mock.call.name = "Delete" /\ Delete(1, mock.call.id)
       \/ mock.call.name = "GetByID" /\ GetByIDCall(1, mock.call.id)

NextBoth ==
    \/ MockCalls
    \/ SameCall
    \/ GetByID(1)
    \/ saveUnsafeWritten(1)

SpecBoth == Init /\ [][NextBoth]_vars

(***************************************************************************)
(* Properties.                                                             *)
(***************************************************************************)
InGuard(t) == pc[t] # "idle"
Mutating(t) == pc[t] = "save" /\ op[t].name \in {"Create", "Update", "Delete"}
Present(id) == FindTodoByID(storage, id) # 0
Stored(id) == storage.Todos[FindTodoByID(storage, id)]

\* C1: in every reachable state, under every interleaving of Create, Update,
\* Delete, GetAll and GetByID, no two records of the collection share an id.
C1_UniqueIds ==
    \A i, j \in 1..Len(storage.Todos) :
        i # j => storage.Todos[i].ID # storage.Todos[j].ID

\* two records are in the collection, the second added after an update or a
\* delete had been applied
C1_Witness ==
    /\ Len(storage.Todos) = 2
    /\ Len(assigned) = 2
    /\ \E t \in Threads : Mutating(t) /\ op[t].name = "Update" /\ op[t].id = 2

\* C2: NextID is greater than every id AddTodo has handed out on this
\* instance (deleted ones included) and than every id in the collection, and
\* the ids were handed out in strictly increasing order.
C2_NextIdAboveAssigned ==
    /\ \A k \in 1..Len(assigned) : assigned[k] < storage.NextID
    /\ \A k \in 1..(Len(assigned) - 1) : assigned[k] < assigned[k + 1]
    /\ \A i \in 1..Len(storage.Todos) : storage.Todos[i].ID < storage.NextID

\* two ids were handed out and the record of the first has been deleted
C2_Witness ==
    /\ Len(assigned) = 2
    /\ removed > 0
    /\ ~Present(assigned[1])

\* C3: creates with valid drafts that interleave on one repository: each one
\* that returns without a file-system fault returns success with the id of
\* the record it stored, the ids handed out are pairwise distinct, and no
\* record is lost: the collection holds the loaded records plus one per
\* AddTodo minus one per delete.
C3_ConcurrentCreates ==
    /\ (last.op = "Create" /\ last.kind # "validation" /\ faults = 0)
          => /\ last.kind = "ok"
             /\ Present(last.id)
             /\ last.val = << Stored(last.id) >>
    /\ \A k, m \in 1..Len(assigned) : k # m => assigned[k] # assigned[m]
    /\ \A k \in 1..Len(assigned) : Present(assigned[k]) \/ removed > 0
    /\ Len(storage.Todos) = loaded + Len(assigned) - removed

\* a second create has just returned success while nothing was deleted or
\* loaded and no fault was injected: two records, two ids
C3_Witness ==
    /\ last.op = "Create" /\ last.kind = "ok" /\ last.id = 2
    /\ Len(assigned) = NumThreads
    /\ removed = 0 /\ loaded = 0 /\ faults = 0
    /\ Len(storage.Todos) = NumThreads

\* C4: while a Create, Update or Delete is between its storage step and the
\* end of its file write, no other thread is inside the guard.
C4_WritersExclusive ==
    \A t \in Threads : Mutating(t) =>
        /\ writer = t
        /\ readers = {}
        /\ \A u \in Threads \ {t} : ~InGuard(u)

\* a Delete has removed a record and has not yet written the file
C4_Witness ==
    \E t \in Threads : Mutating(t) /\ op[t].name = "Delete" /\ writer = t

\* C5: Save holds the guard exclusively: while a Save is inside the guard no
\* other Save, GetAll or GetByID is.
C5_SaveExclusive ==
    \A t \in Threads : (pc[t] = "save" /\ op[t].name = "Save") =>
        \A u \in Threads \ {t} : ~InGuard(u)

\* Save takes the read side (RLock), so two Save calls can be inside together,
\* each running os.WriteFile.

TimeEqual(a, b) == a.wall = b.wall

\* the same records in the same order (times compared as instants) and the
\* same NextID
SameStorage(a, b) ==
    /\ a.NextID = b.NextID
    /\ Len(a.Todos) = Len(b.Todos)
    /\ \A i \in 1..Len(a.Todos) :
        /\ a.Todos[i].ID = b.Todos[i].ID
        /\ a.Todos[i].Title = b.Todos[i].Title
        /\ a.Todos[i].Description = b.Todos[i].Description
        /\ a.Todos[i].Completed = b.Todos[i].Completed
        /\ TimeEqual(a.Todos[i].CreatedAt, b.Todos[i].CreatedAt)
        /\ TimeEqual(a.Todos[i].UpdatedAt, b.Todos[i].UpdatedAt)

\* the file holds a document with the content of the in-memory storage
FileHoldsMemory == file.kind = "json" /\ SameStorage(Unmarshal(file), storage)

\* the file and the memory agree: as above, or there is no (or an empty) file
\* and the storage is the empty one Load makes of it
InSync ==
    \/ FileHoldsMemory
    \/ file.kind \in {"absent", "empty"} /\ SameStorage(NewTodoStorage, storage)

Mutators == {"Create", "Update", "Delete"}

\* when Create, Update or Delete has just returned success, the file holds
\* the in-memory collection
C6_FileAfterSuccess ==
    (last.op \in Mutators /\ last.kind = "ok") => FileHoldsMemory

\* C6 as claimed: the above, and, once the instance has loaded or written
\* the file, memory and file differ at a point with no mutating call in
\* progress only if a mutating call has returned an I/O error since the last
\* successful write.
C6_Original ==
    /\ C6_FileAfterSuccess
    /\ (sync # "unknown" /\ ~InSync /\ \A t \in Threads : ~Mutating(t))
          => sync = "mutfail"

\* C7: when the file write of Create, Update or Delete fails, the call returns
\* the I/O error and the storage step is kept: the created record is in the
\* collection with NextID past its id, the updated record is the stored one,
\* the deleted record is absent.
C7_FailedSaveKeepsMutation ==
    /\ (last.kind = "io" /\ last.op = "Create") =>
          /\ Present(last.id)
          /\ << Stored(last.id) >> = last.val
          /\ last.id = assigned[Len(assigned)]
          /\ storage.NextID > last.id
    /\ (last.kind = "io" /\ last.op = "Update") =>
          /\ Present(last.id)
          /\ << Stored(last.id) >> = last.val
    /\ (last.kind = "io" /\ last.op = "Delete") => ~Present(last.id)

\* a Create has just returned the I/O error and the file does not hold its
\* record
C7_Witness ==
    /\ last.kind = "io" /\ last.op = "Create"
    /\ Present(last.id)
    /\ ~FileHoldsMemory

\* C8: a step in which Create, Update or Delete returns a validation error or
\* "not found" leaves the records, their order, NextID and the file as they
\* were.
C8_RejectedCallChangesNothing ==
    [][ (last'.op \in Mutators /\ last'.kind \in {"validation", "notfound"})
            => (storage' = storage /\ file' = file) ]_vars

\* a Create was rejected by validation after an earlier one had been accepted
C8_Witness ==
    /\ last.op = "Create" /\ last.kind = "validation"
    /\ Len(assigned) = 1
    /\ storage.NextID = assigned[1] + 1

PresentIn(ts, id) == FindTodoByID(ts, id) # 0
StoredIn(ts, id) == ts.Todos[FindTodoByID(ts, id)]

\* C9: no step changes the CreatedAt of a record that stays in the
\* collection, and the step in which Update applies a draft leaves the stored
\* record, which is the record handed back through *todo, with the id and
\* the CreatedAt the record had before.
C9_UpdateKeepsIdAndCreatedAt ==
    [][ /\ \A id \in Ids :
            (PresentIn(storage, id) /\ PresentIn(storage', id))
                => StoredIn(storage', id).CreatedAt = StoredIn(storage, id).CreatedAt
        /\ \A t \in Threads :
            (pc[t] = "idle" /\ pc'[t] = "save" /\ op'[t].name = "Update")
                => /\ PresentIn(storage, op'[t].id)
                   /\ PresentIn(storage', op'[t].id)
                   /\ StoredIn(storage', op'[t].id) = op'[t].todo
                   /\ FindTodoByID(storage', op'[t].id) = FindTodoByID(storage, op'[t].id)
                   /\ op'[t].todo.ID = op'[t].id
                   /\ op'[t].todo.CreatedAt = StoredIn(storage, op'[t].id).CreatedAt
      ]_vars

\* an Update with the forged draft (its own ID and CreatedAt) has been applied
\* to record 2
C9_Witness ==
    \E t \in Threads :
        /\ pc[t] = "save" /\ op[t].name = "Update" /\ op[t].id = 2
        /\ op[t].todo.Title = ForgedDraft.Title
        /\ op[t].todo.ID # ForgedDraft.ID
        /\ op[t].todo.CreatedAt # ForgedDraft.CreatedAt

\* C10 as claimed: the step in which Create stores a valid draft stores a
\* record with ID = the old NextID and CreatedAt = UpdatedAt = the time of the
\* call, whatever ID, CreatedAt and UpdatedAt the draft carried.
C10_CreateAssignsIdAndTimes ==
    [][ \A t \in Threads :
            (pc[t] = "idle" /\ pc'[t] = "save" /\ op'[t].name = "Create")
                => LET r == storage'.Todos[Len(storage'.Todos)] IN
                   /\ r = op'[t].todo
                   /\ r.ID = storage.NextID
                   /\ r.CreatedAt = TimeNow(now)
                   /\ r.UpdatedAt = TimeNow(now)
      ]_vars

\* C11 as claimed: with a clock that only moves forward, every record of the
\* collection has UpdatedAt at or after CreatedAt, whatever valid drafts Create
\* and Update were given.
C11_UpdatedNotBeforeCreated ==
    \A i \in 1..Len(storage.Todos) :
        storage.Todos[i].UpdatedAt.wall >= storage.Todos[i].CreatedAt.wall

\* the step is a step of Update(id, ...): the call returns at once, or it has
\* applied the draft and goes on to the file write
UpdateStep(id) ==
    \/ last'.op = "Update" /\ last'.id = id
    \/ \E t \in Threads :
          pc[t] = "idle" /\ pc'[t] = "save" /\ op'[t].name = "Update" /\ op'[t].id = id

\* C12 as claimed: Update of an id that is not in the collection returns
\* "not found" for every draft, also one that fails validation.
C12_ExistenceBeforeValidation ==
    [][ \A id \in Ids, d \in Drafts :
            (~PresentIn(storage, id) /\ UpdateStep(id) /\ \E t \in Threads : Update(t, id, d))
                => (last'.op = "Update" /\ last'.kind = "notfound") ]_vars

\* C12 (amended): Update validates the draft before it looks for the record:
\* for an id that is not in the collection it returns "not found" for every
\* draft that passes validation and the validation error for every draft that
\* fails it.
C12_ValidationBeforeExistence ==
    [][ \A id \in Ids, d \in Drafts :
            (~PresentIn(storage, id) /\ UpdateStep(id) /\ \E t \in Threads : Update(t, id, d))
                => /\ last'.op = "Update"
                   /\ last'.kind = IF d \in ValidDrafts THEN "notfound" ELSE "validation"
                   /\ storage' = storage ]_vars

\* an Update of a missing id has just returned "not found" while another
\* record is in the collection
C12_Witness ==
    /\ last.op = "Update" /\ last.kind = "notfound"
    /\ ~Present(last.id)
    /\ Len(storage.Todos) = 1

\* C13: once DeleteTodo has removed the record of an id, on this instance the
\* id is not in the collection again: every GetByID of it that returns
\* returns "not found", no GetAll hands back a record with it, and no Create
\* that is under way or has just returned was given it.
C13_DeletedStaysDeleted ==
    /\ \A id \in deleted : ~Present(id)
    /\ (last.op = "GetByID" /\ last.id \in deleted) => last.kind = "notfound"
    /\ last.op = "GetAll" => \A i \in 1..Len(last.val) : last.val[i].ID \notin deleted
    /\ (last.op = "Create" /\ last.kind \in {"ok", "io"}) => last.id \notin deleted
    /\ \A t \in Threads :
          (pc[t] = "save" /\ op[t].name = "Create") => op[t].id \notin deleted

\* a Create has returned its id after a record with a smaller id had been
\* deleted
C13_Witness ==
    /\ last.op = "Create" /\ last.kind = "ok"
    /\ \E id \in deleted : id < last.id
    /\ Present(last.id)

Persisting == {"Save", "Create", "Update", "Delete"}

\* C14 as claimed: when the program is stopped right after a Save, Create,
\* Update or Delete has written the file and returned nil, and the new
\* repository's Load of that file succeeds, the new repository holds the
\* records the old one held, in the same order with the same fields (times
\* as instants), and the same NextID.
C14_RoundTrip ==
    [][ (/\ last.op \in Persisting /\ last.kind = "ok"
         /\ last'.op = "Load" /\ last'.kind = "ok")
            => SameStorage(storage', storage) ]_vars

\* C15: a Load that finds no file returns nil, a Load that finds and reads a
\* file of zero length returns nil, and both leave the repository with no
\* records and NextID = 1; the first Create after such a Load gets id 1.
C15_LoadOfNothing ==
    /\ (last.op = "Load" /\ file.kind = "absent") => last.kind = "ok"
    /\ (last.op = "Load" /\ file.kind = "empty" /\ faults = 0) => last.kind = "ok"
    /\ (last.op = "Load" /\ last.kind = "ok" /\ file.kind \in {"absent", "empty"})
          => storage = [Todos |-> << >>, NextID |-> 1]
    /\ \A t \in Threads :
          (/\ pc[t] = "save" /\ op[t].name = "Create"
           /\ file.kind \in {"absent", "empty"} /\ sync = "clean")
              => (op[t].id = 1 /\ storage.Todos = << op[t].todo >>)

\* the first Create after the Load of a file of zero length has stored its
\* record and has not yet written the file
C15_Witness ==
    /\ pc[1] = "save" /\ op[1].name = "Create" /\ op[1].id = 1
    /\ file.kind = "empty" /\ sync = "clean"

\* C16 as claimed: when the application has stopped and started again, and
\* the file could be read, every todo whose Create or Update returned nil and
\* that no Delete has removed since is in the loaded collection with the same
\* id, title, description and completed flag.
C16_KeptAcrossRestart ==
    (started /\ last.op = "Load" /\ (last.kind = "ok" \/ file.kind = "partial"))
        => \A c \in kept.todos :
              /\ last.kind = "ok"
              /\ \E i \in 1..Len(storage.Todos) : Content(storage.Todos[i]) = c

\* C17 as claimed: the id AddTodo gives to a Create is none of the ids an
\* earlier Create has handed to its caller, whether that Create returned nil or
\* an error of its write, and whether or not the application has stopped and
\* started again since.
C17_NeverHandedOutAgain ==
    \A t \in Threads :
        (pc[t] = "save" /\ op[t].name = "Create") => op[t].id \notin handed

\* C18: while a Load holds the guard, no Save and no saveUnsafe of Create,
\* Update or Delete is between taking the guard and the end of its write, so
\* the file the Load reads is the file as the last finished write left it.
C18_LoadNotDuringWrite ==
    \A t \in Threads :
        (pc[t] = "locked" /\ op[t].name = "Load")
            => /\ \A u \in Threads : pc[u] # "save"
               /\ StoppedFiles = {file}

\* a Load holds the write side of the guard on a repository in use, whose
\* file a Create has written, while another caller is outside the guard
C18_Witness ==
    /\ started
    /\ \E t, u \in Threads :
          /\ pc[t] = "locked" /\ op[t].name = "Load" /\ writer = t
          /\ pc[u] = "idle" /\ file.kind = "json" /\ Len(assigned) > 0

\* C19: with fair scheduling and a file write that returns, every call of
\* GetAll, GetByID, Create, Update, Delete, Save or Load that is blocked in
\* r.mutex or is inside the guard returns and has released the guard; no
\* caller waits for ever.
C19_EveryCallReturns ==
    \A t \in Threads :
        (waiting[t] # "none" \/ pc[t] # "idle")
            ~> (waiting[t] = "none" /\ pc[t] = "idle" /\ writer # t /\ t \notin readers)

\* a Lock has announced itself and waits for a Save that holds the read side
\* and has still to write the file
C19_Witness ==
    \E t, u \in Threads :
        /\ waiting[t] = "pending"
        /\ u \in readers /\ pc[u] = "save" /\ op[u].name = "Save"

\* the ids of a sequence of todos, in its order
IdsOf(todos) == [i \in 1..Len(todos) |-> todos[i].ID]

\* todos less the records with the given id, in the same order
Without(todos, id) ==
    LET Other(x) == x.ID # id IN SelectSeq(todos, Other)

\* thread t takes the storage step of the method name in this step
StorageStep(t, name) ==
    pc[t] = "idle" /\ pc'[t] = "save" /\ op'[t].name = name

ServedWithID ==
    /\ front.req = NoReq
    /\ front.served.method \in {"getTodoByID", "updateTodo", "deleteTodo"}
    /\ front.served.seg.numeric
    /\ front.served.kind \in {"none", "json"}

\* C22: GetTodoByID, UpdateTodo and DeleteTodo of the service return the
\* 'invalid todo ID' error for every id <= 0; it is not the error they return
\* for a todo that is not found, and no repository method is called: no
\* request with such an id is ever in progress at the repository.
C22_InvalidIDRejected ==
    /\ front.req # NoReq /\ front.req.stage \in {"GetByID", "Update", "Delete"}
          => front.req.id > 0
    /\ ServedWithID /\ front.served.seg.n <= 0
          => /\ front.resp.err = InvalidIDError
             /\ front.resp.err #
                   ServiceError("GetByID", RepoError("GetByID", "notfound", front.path, NoTodo))
             /\ last = NoRes

\* DeleteTodo(-1) has been rejected while the collection holds a todo
C22_Witness ==
    /\ ServedWithID
    /\ front.served.method = "deleteTodo"
    /\ front.served.seg.n = -1
    /\ front.resp.err = InvalidIDError
    /\ Len(storage.Todos) > 0


\* C23: a request to GET, PUT or DELETE /todos/{id} whose identifier is not a
\* number, is zero or is negative is answered with status 400, never 500.
C23_BadIdentifierIs400 ==
    /\ front.req = NoReq
    /\ front.served.method \in {"getTodoByID", "updateTodo", "deleteTodo"}
    /\ ~front.served.seg.numeric \/ front.served.seg.n <= 0
    => front.resp.status = 400


\* the messages the handlers write with status 500
GenericMessages ==
    { << "Failed to retrieve todos" >>, << "Failed to retrieve todo" >>,
      << "Failed to create todo" >>, << "Failed to update todo" >>,
      << "Failed to delete todo" >> }

\* the handler has answered a request with what the repository returned last
Answered(kind) ==
    /\ front.req = NoReq
    /\ front.resp.status # 0
    /\ last.op \in {"GetByID", "Create", "Update", "Delete"}
    /\ last.kind = kind

\* C24: when the repository returns its not-found error the response is 404,
\* when it returns a validation error the response is 400, and when the
\* file write of Create, Update or Delete fails the response is 500 with one
\* of the fixed messages, which holds neither the path nor the text of the
\* error.
C24_ErrorsMapped ==
    /\ Answered("notfound") => front.resp.status = 404
    /\ Answered("validation") => front.resp.status = 400
    /\ Answered("io") =>
          /\ front.resp.status = 500
          /\ front.resp.error \in GenericMessages


\* s is empty or holds only white space
AllSpace(s) == \A i \in 1..Len(s) : IsSpace(s[i].ch)

CreateReturns ==
    /\ front.req # NoReq
    /\ front.req.method = "createTodo"
    /\ front'.req = NoReq
    /\ front'.resp.status = 201

\* the record CreateTodo returns is the stored one, not completed, with equal
\* stamps and with the title and the description it was given, trimmed
CreatedAsGiven ==
    LET t == front'.resp.body[1] IN
    /\ FindTodoByID(storage', t.ID) # 0
    /\ storage'.Todos[FindTodoByID(storage', t.ID)] = t
    /\ t.Completed = FALSE
    /\ t.CreatedAt = t.UpdatedAt
    /\ t.Title = TrimSpace(front.req.title)
    /\ t.Description = TrimSpace(front.req.description)

\* C26 as claimed: a successful CreateTodo returns and stores a record that is
\* not completed, has created_at = updated_at and the trimmed title and
\* description; when the collection was empty before, its id is 1.
C26_IdOneOnEmpty ==
    [][ CreateReturns =>
          /\ CreatedAsGiven
          /\ Len(storage'.Todos) = 1 => front'.resp.body[1].ID = 1 ]_vars

\* C26, amended: a successful CreateTodo returns and stores a record that is
\* not completed, has created_at = updated_at and the trimmed title and
\* description; its id is the NextID the collection had before, which is 1
\* only as long as no id has been handed out.
C26_CreateThroughService ==
    [][ /\ CreateReturns => CreatedAsGiven
        /\ /\ front.req # NoReq
           /\ front.req.stage = "Create"
           /\ Len(storage'.Todos) = Len(storage.Todos) + 1
           => /\ storage'.Todos[Len(storage'.Todos)].ID = storage.NextID
              /\ storage.NextID = 1 => storage'.Todos[1].ID = 1 ]_vars

\* CreateTodo(" a ", " d") has succeeded on a collection that a delete had
\* emptied: the record is trimmed and has the id 2
C26_Witness ==
    /\ front.req = NoReq
    /\ front.served.method = "createTodo"
    /\ front.resp.status = 201
    /\ Len(storage.Todos) = 1
    /\ front.resp.body[1] = storage.Todos[1]
    /\ front.resp.body[1].ID = 2
    /\ front.resp.body[1].Title = Rep("a", 1)
    /\ front.resp.body[1].Description = Rep("d", 1)


\* C27: when the file write of a Create, Update or Delete has failed, the next
\* file write that succeeds (of a later Create, Update or Delete, or of Save)
\* leaves the file holding the in-memory collection, the change of the failed
\* call included.
C27_NextWriteCatchesUp ==
    [][ (sync = "mutfail" /\ last'.op \in Persisting /\ last'.kind = "ok")
            => FileHoldsMemory' ]_vars


\* C28: when Load has returned nil, the ids of the records are pairwise
\* distinct and NextID is greater than each of them (so that the next Create
\* gets an id no record has).
C28_LoadedInvariants ==
    (last.op = "Load" /\ last.kind = "ok") =>
        /\ \A i, j \in 1..Len(storage.Todos) :
              storage.Todos[i].ID = storage.Todos[j].ID => i = j
        /\ \A i \in 1..Len(storage.Todos) : storage.Todos[i].ID < storage.NextID


\* C29: a Load that finds a file that is there, is not empty and does not
\* parse returns an error and leaves the records and NextID as they were.
C29_FailedLoadKeepsMemory ==
    [][ (last'.op = "Load" /\ file.kind = "partial")
            => (last'.kind = "io" /\ storage' = storage) ]_vars

\* Load has failed on a truncated file while the repository holds a record
C29_Witness ==
    /\ last.op = "Load" /\ last.kind = "io"
    /\ file.kind = "partial"
    /\ Len(storage.Todos) > 0
    /\ storage.NextID > 1


\* t is inside the guard in a GetAll or a GetByID
Reading(t) == pc[t] = "locked" /\ op[t].name \in {"GetAll", "GetByID"}

\* C30: GetAll and GetByID calls can be inside the guard together (the
\* witness), and while one is inside, no Create, Update, Delete or Load is.
C30_ReadersShareWritersExcluded ==
    \A t \in Threads : Reading(t) =>
        /\ t \in readers
        /\ writer = NoThread
        /\ \A u \in Threads \ {t} :
              InGuard(u) => op[u].name \notin {"Create", "Update", "Delete", "Load"}

\* a GetAll and a GetByID hold the read side together, on a repository that
\* holds a record
C30_Witness ==
    \E t, u \in Threads :
        /\ t # u
        /\ Reading(t) /\ op[t].name = "GetAll"
        /\ Reading(u) /\ op[u].name = "GetByID"
        /\ {t, u} \subseteq readers
        /\ Len(storage.Todos) > 0


\* C31: a request is taken only when, in this run, Load has returned nil on a
\* file that is there; initializeDataFile has made a missing file as the
\* empty collection with next_id 1 before Load is called; the server starts
\* only on a Load that returned nil, with what Load read in memory; and a run
\* whose Load or initializeDataFile failed never serves.
C31_LoadBeforeServing ==
    [][ /\ (front'.req # front.req /\ front.req = NoReq) \/ front'.served # front.served
             => /\ front.main = "serving"
                /\ sync # "unknown"
                /\ file.kind # "absent"
        /\ (front.main = "init" /\ front'.main = "load" /\ file.kind = "absent")
             => file' = Marshal(NewTodoStorage)
        /\ (front.main # "serving" /\ front'.main = "serving")
             => /\ last.op = "Load" /\ last.kind = "ok"
                /\ storage = Loaded(file)
        /\ front.main = "failed" => front'.main \in {"failed", "init"} ]_vars

\* a POST is being served by a run that found no file and made it
C31_Witness ==
    /\ front.main = "serving"
    /\ front.req # NoReq
    /\ front.req.method = "createTodo"
    /\ file = Marshal(NewTodoStorage)
    /\ faults = 0
    /\ Len(assigned) = 0


\* C32: after the signal the server takes no request, repo.Save() is called
\* after server.Shutdown has returned and once in a run, and when it returns
\* nil while no handler is running, the file holds the in-memory collection.
C32_SaveOnShutdown ==
    [][ /\ (pc[2] = "idle" /\ pc'[2] = "save")
             => (front.main = "save" /\ front'.main = "saving")
        /\ front.main = "saving" => front'.main \in {"saving", "exited"}
        /\ front.main \in {"shutdown", "save", "saving"}
             => (front'.served = front.served /\ (front.req = NoReq => front'.req = NoReq))
        /\ (/\ pc[2] = "save" /\ pc'[2] = "idle"
            /\ last'.kind = "ok"
            /\ front.req = NoReq)
             => FileHoldsMemory' ]_vars

\* the Save of a shutdown has returned nil and the file holds the record of
\* a POST that was answered 500 because its own file write had failed, and
\* that was the last request
C32_Witness ==
    /\ front.main = "saving"
    /\ last.op = "Save" /\ last.kind = "ok"
    /\ front.req = NoReq
    /\ front.served.method = "createTodo"
    /\ front.resp.status = 500
    /\ Len(assigned) > 0
    /\ Present(assigned[Len(assigned)])
    /\ FileHoldsMemory


(***************************************************************************)
(* C33.  The in-memory repository and the file-backed one answer alike:    *)
(* whenever a caller has made the same create, update, delete or getById   *)
(* call on both, from the start and with no I/O error, both returned the   *)
(* same kind of outcome (nil, not found, validation error) and, when nil,  *)
(* todos with the same id, title, description and completed.               *)
(***************************************************************************)
Contents(val) == [i \in 1..Len(val) |-> Content(val[i])]

C33_MockConforms ==
    (mock.call # NoOp /\ last.op = mock.call.name)
        => /\ last.kind = mock.res.kind
           /\ last.kind = "ok" => /\ last.id = mock.res.id
                                  /\ Contents(last.val) = Contents(mock.res.val)


(***************************************************************************)
(* C34.  Every todo in r.storage passes Todo.Validate, in every state      *)
(* reached from the empty repository: its title is not empty once trimmed  *)
(* and has at most 200 bytes, its description at most 1000.                *)
(***************************************************************************)
C34_StoredRecordsValid ==
    \A i \in 1..Len(storage.Todos) : Validate(storage.Todos[i]) = "nil"


(***************************************************************************)
(* C35.  DeleteTodo called for one stored id on several goroutines at      *)
(* once: at most one of the calls returns nil, exactly one once all have   *)
(* returned; every other returns an error for which deleteTodo answers 404 *)
(* (it contains "not found"); the todo is removed once and no other todo   *)
(* is removed.                                                             *)
(***************************************************************************)
Called(t) == front.calls[t] # NoReq
ServiceDone(t) == Called(t) /\ front.calls[t].stage = "done"
ServiceOK(t) == ServiceDone(t) /\ front.calls[t].err = << >>

C35_OneDeleteSucceeds ==
    /\ \A id \in 1..2 :
        LET callers == {t \in Threads : Called(t) /\ front.calls[t].method = "DeleteTodo"
                                          /\ front.calls[t].id = id}
            won == {t \in callers : ServiceOK(t)}
        IN  /\ Cardinality(won) <= 1
            /\ (callers # {} /\ \A t \in callers : ServiceDone(t)) => Cardinality(won) = 1
            /\ \A t \in callers \ won :
                  ServiceDone(t) =>
                     HandlerError("deleteTodo", front.calls[t].err).status = 404
            /\ won # {} => (id \in deleted /\ ~Present(id))
            /\ callers = {} => id \notin deleted
    /\ removed = Cardinality(deleted)
    /\ front.main = "serving" =>
          {storage.Todos[i].ID : i \in 1..Len(storage.Todos)} = (1..2) \ deleted

C35_Witness ==
    /\ \A t \in Threads : ServiceDone(t) /\ front.calls[t].id = 1
    /\ Cardinality({t \in Threads : ServiceOK(t)}) = 1
    /\ \E t \in Threads :
          /\ Contains(front.calls[t].err, "not found")
          /\ front.calls[t].err[1] = "failed to delete todo"
    /\ removed = 1
    /\ Present(2)
    /\ ~Present(1)


(***************************************************************************)
(* C36.  UpdateTodo whose todo is deleted between its GetByID and its      *)
(* Update: Update finds no todo, leaves r.storage and the file as they     *)
(* are and returns its "todo not found", UpdateTodo returns an error for   *)
(* which updateTodo answers 404, and a deleted todo is neither in          *)
(* r.storage nor, once the write of its Delete is done, in the file.       *)
(***************************************************************************)
FileHolds(f, id) == f.kind = "json" /\ \E i \in 1..Len(f.todos) : f.todos[i].id = id

C36_UpdateAfterDelete ==
    [][ /\ \A t \in Threads :
            (ServiceCalling(t, "Update") /\ front' = front
                  /\ front.calls[t].id \in deleted)
               => /\ last' = Result(t, "Update", "notfound", front.calls[t].id, << >>)
                  /\ storage' = storage
                  /\ file' = file
        /\ \A t \in Threads :
            (Called(t) /\ front.calls[t].stage = "Update" /\ last.kind = "notfound"
                  /\ front'.calls[t].stage = "done")
               => /\ Contains(front'.calls[t].err, "not found")
                  /\ HandlerError("updateTodo", front'.calls[t].err).status = 404
        /\ \A id \in deleted' :
            /\ FindTodoByID(storage', id) = 0
            /\ (\A t \in Threads : pc'[t] # "save") => ~FileHolds(file', id) ]_vars

C36_Witness ==
    \E t \in Threads :
        /\ ServiceDone(t)
        /\ front.calls[t].method = "UpdateTodo"
        /\ front.calls[t].id = 1
        /\ front.calls[t].found.ID = 1
        /\ front.calls[t].err = << "failed to update todo", "failed to update todo with ID",
                                   "todo not found" >>
        /\ 1 \in deleted
        /\ ~Present(1)
        /\ ~FileHolds(file, 1)
        /\ FileHolds(file, 2)


(***************************************************************************)
(* C37.  While callers update one todo and others read: every todo GetAll  *)
(* or GetByID returns, every todo Update hands back and every todo in the  *)
(* file has the title, description and completed of one draft, or those    *)
(* the todo was created with; never some fields of one and some of         *)
(* another.                                                                *)
(***************************************************************************)
Fields(t) == [title |-> t.Title, description |-> t.Description, completed |-> t.Completed]

\* the fields a todo can have as a whole
WholeFields ==
    {Fields(d) : d \in WholeDrafts}
    \cup UNION {{Fields(Unmarshal(f).Todos[i]) : i \in 1..Len(f.todos)} : f \in ServiceFiles}

C37_WholeDraftsOnly ==
    /\ (last.op \in {"GetAll", "GetByID", "Update"} /\ last.kind = "ok")
          => \A i \in 1..Len(last.val) : Fields(last.val[i]) \in WholeFields
    /\ file.kind = "json"
          => \A i \in 1..Len(file.todos) : Fields(UnmarshalTodo(file.todos[i])) \in WholeFields

C37_Witness ==
    /\ last.op = "GetByID"
    /\ last.kind = "ok"
    /\ Fields(last.val[1]) \in {Fields(d) : d \in WholeDrafts}
    /\ \E t \in Threads : pc[t] = "locked" /\ op[t].name = "GetAll"
    /\ \E i \in 1..Len(file.todos) :
          Fields(UnmarshalTodo(file.todos[i])) = Fields(last.val[1])


(***************************************************************************)
(* C38.  Starting the program leaves a data file that exists as it is:     *)
(* initializeDataFile and Load do not change it, and when the server       *)
(* starts r.storage holds the todos of the file, those an earlier run      *)
(* wrote.                                                                  *)
(***************************************************************************)
C38_StartupKeepsFile ==
    [][ /\ (front.main \in {"init", "load"} /\ file.kind # "absent") => file' = file
        /\ (front.main = "load" /\ front'.main = "serving")
             => /\ file.kind \in {"json", "empty"}
                /\ storage' = Loaded(file)
                /\ file.kind = "json" => Marshal(storage') = file ]_vars

C38_Witness ==
    /\ front.main = "serving"
    /\ last.op = "Load"
    /\ Len(assigned) = 0
    /\ file.kind = "json"
    /\ \E i \in 1..Len(storage.Todos) : storage.Todos[i].Title = Rep(ReplacementRune, 1)
    /\ Marshal(storage) = file

====
